---- MODULE Spec2Model ----
(***************************************************************************)
(* The scrape-event edge function (supabase/functions/scrape-event) as a   *)
(* state machine: one invocation walks receive -> authenticate -> discover *)
(* -> per match (roster fetch, counts fetch, one upsert per player, pacing *)
(* delay) -> summary.  Every `await` of the handler is one action.  The    *)
(* upstream site and the aads_players table are the shared environment.    *)
(*                                                                         *)
(* JavaScript values: a nullable number or string is a set, {} for         *)
(* null/undefined and {v} for the value v; arrays are 1-based sequences.   *)
(***************************************************************************)
EXTENDS Integers, Sequences, FiniteSets, TLC

VARIABLES store, upDiscovery, upRoster, upCounts, upChanges, run, stats, dash

vars == <<store, upDiscovery, upRoster, upCounts, upChanges, run, stats, dash>>

----------------------------------------------------------------------------
(* Bounds of the model *)

\* how many times the environment replaces a document of the upstream site
MaxUpstreamChanges == 1
\* how many times the operator re-sends the same request (SpecTwice)
MaxReruns == 1

\* the clicks of the user on the dashboard, and the firings of its timer
MaxClicks == 1
MaxTicks == 1

\* the concurrent invocations of the function
Inv == {1, 2}

None == {}
Some(x) == {x}

Range(f) == {f[j] : j \in DOMAIN f}

----------------------------------------------------------------------------
(* Requests *)

Users == {"u1", "u2"}
\* "" is the missing (falsy) event_name
EventNames == {"", "E1", "E2"}

\* event_url values, as character sequences; <<>> is the missing/empty one
UrlPlain == <<"e", "v", "e", "n", "t", "/", "7">>
UrlLong == <<"t", "v", "/", "e", "v", "e", "n", "t", "/", "7", "/", "m">>
UrlNoToken == <<"e", "v", "e", "n", "t", "/">>
UrlEmptyToken == <<"e", "v", "e", "n", "t", "/", "/", "7">>
UrlPlural == <<"e", "v", "e", "n", "t", "s", "/", "7">>
Urls == {<<>>, UrlPlain, UrlLong, UrlNoToken, UrlEmptyToken, UrlPlural}

\* the literal prefix of the pattern /event\/([^\/]+)/
EventPrefix == <<"e", "v", "e", "n", "t", "/">>

\* the pattern matches at position p: the literal, then at least one non-slash
MatchesAt(url, p) ==
    /\ p + Len(EventPrefix) <= Len(url)
    /\ SubSeq(url, p, p + Len(EventPrefix) - 1) = EventPrefix
    /\ url[p + Len(EventPrefix)] # "/"

\* the greedy capture [^\/]+ starting at position s
RECURSIVE Capture(_, _)
Capture(url, s) ==
    IF s > Len(url) \/ url[s] = "/" THEN <<>>
    ELSE <<url[s]>> \o Capture(url, s + 1)

\* the pattern with an optional token, /event\/([^\/]*)/
EventIdMatchLoose(url) ==
    LET hits == {p \in 1..Len(url) :
                    /\ p + Len(EventPrefix) - 1 <= Len(url)
                    /\ SubSeq(url, p, p + Len(EventPrefix) - 1) = EventPrefix}
    IN  IF hits = {} THEN None
        ELSE LET p == CHOOSE q \in hits : \A o \in hits : q <= o
             IN  Some(Capture(url, p + Len(EventPrefix)))

\* event_url.match(/event\/([^\/]+)/): None when there is no match, else the
\* capture group of the leftmost match
EventIdMatch(url) ==
    LET hits == {p \in 1..Len(url) : MatchesAt(url, p)}
    IN  IF hits = {} THEN None
        ELSE LET p == CHOOSE q \in hits : \A o \in hits : q <= o
             IN  Some(Capture(url, p + Len(EventPrefix)))

----------------------------------------------------------------------------
(* Upstream documents *)

MatchIds == {"m1", "m2", "m3"}
Names == {"Ann", "Bob"}

\* a document not yet served (the upstream site decides it when first asked)
NoDoc == [ok |-> FALSE, status |-> 0]
HttpFail(s) == [ok |-> FALSE, status |-> s]
\* a page without the data-page attribute
NoMarkerPage == [ok |-> TRUE, status |-> 200, marker |-> FALSE]
\* a page whose data-page attribute does not hold JSON
BadJsonPage == [ok |-> TRUE, status |-> 200, marker |-> TRUE, json |-> FALSE]
Page(props) == [ok |-> TRUE, status |-> 200, marker |-> TRUE, json |-> TRUE,
                props |-> props]

\* discovery responses: sections -> segments -> match_id ({} when the segment
\* carries none); hasSections is payload?.sections, hasSegments section.segments
Seg(m) == [match_id |-> m]
Section(segs) == [hasSegments |-> TRUE, segments |-> segs]
BareSection == [hasSegments |-> FALSE, segments |-> <<>>]
Api2(secs) == [ok |-> TRUE, status |-> 200, hasSections |-> TRUE, sections |-> secs]
Api2NoPayload == [ok |-> TRUE, status |-> 200, hasSections |-> FALSE, sections |-> <<>>]

DiscoveryDocs ==
    { HttpFail(500),
      Api2NoPayload,
      Api2(<<>>),
      Api2(<<BareSection>>),
      Api2(<<Section(<<Seg(None)>>)>>),
      Api2(<<Section(<<Seg(Some("m1"))>>)>>),
      Api2(<<Section(<<Seg(Some("m1")), Seg(Some("m1"))>>)>>),
      Api2(<<Section(<<Seg(Some("m2"))>>), BareSection,
             Section(<<Seg(None), Seg(Some("m1"))>>)>>),
      Api2(<<Section(<<Seg(Some("m1")), Seg(Some("m2"))>>),
             Section(<<Seg(Some("m3"))>>)>>) }

\* roster entries {name, total_games, total_wins, average_01, card_link}
Player(n, g, w, a, c) ==
    [name |-> n, total_games |-> g, total_wins |-> w, average_01 |-> a,
     card_link |-> c]

AnnV1 == Player("Ann", Some(5), Some(3), Some(80), Some("card/ann"))
BobV1 == Player("Bob", Some(5), Some(2), Some(61), None)
\* a corrected roster: values that became zero or null
AnnV2 == Player("Ann", Some(10), Some(0), None, None)

\* hasPlayers is props?.players
Roster(ps) == Page([hasPlayers |-> TRUE, players |-> ps])
RosterNoPlayers == Page([hasPlayers |-> FALSE, players |-> <<>>])

RosterDocs(m) ==
    IF m = "m1"
    THEN {HttpFail(404), NoMarkerPage, BadJsonPage, RosterNoPlayers,
          Roster(<<AnnV1, BobV1>>), Roster(<<AnnV2>>)}
    ELSE IF m = "m2"
    THEN {HttpFail(404), BadJsonPage, Roster(<<AnnV1, BobV1>>)}
    ELSE {HttpFail(500), Roster(<<BobV1>>)}

\* distribution maps: round score (as a string key) -> count
ScoreKeys == {"26", "100", "140", "141", "160", "171", "180"}
EmptyDist == [k \in {} |-> 0]
DistExample == [k \in {"100", "140", "180"} |->
                   IF k = "100" THEN 3 ELSE IF k = "140" THEN 1 ELSE 2]
DistLow == [k \in {"26", "100"} |-> IF k = "26" THEN 7 ELSE 0]

FirstNine(a) == [average |-> a]
Checkout(e, o, h, hi, a) ==
    [efficiency |-> e, opportunities |-> o, hit |-> h, highest |-> hi,
     average |-> a]

Counts(d, f, c) ==
    Page([distribution |-> d, first_nine |-> f, checkout_stats |-> c])

CountsFull ==
    Counts(<<DistExample, DistLow>>,
           <<FirstNine(Some(85)), FirstNine(Some(70))>>,
           <<Checkout(Some("40%"), Some(5), Some(2), Some(120), Some(60)),
             Checkout(Some(""), Some(0), Some(0), Some(0), Some(0))>>)
\* secondary arrays shorter than the roster, a first-nine average of 0
CountsShort ==
    Counts(<<DistLow>>, <<FirstNine(Some(0))>>, <<>>)

CountsDocs(m) ==
    IF m = "m1"
    THEN {HttpFail(503), NoMarkerPage, BadJsonPage, CountsFull, CountsShort}
    ELSE IF m = "m2"
    THEN {NoMarkerPage, CountsFull}
    ELSE {CountsShort}

----------------------------------------------------------------------------
(* Record construction *)

\* x || null and x || 0 on a nullable number, x || null on a nullable string
NumOrNull(x) == IF x = None \/ x = Some(0) THEN None ELSE x
NumOrZero(x) == IF x = None \/ x = Some(0) THEN 0 ELSE CHOOSE v \in x : TRUE
StrOrNull(x) == IF x = None \/ x = Some("") THEN None ELSE x

\* arr[i] || {} for the three secondary arrays
DistAtIndex(arr, i) == IF i \in DOMAIN arr THEN arr[i] ELSE EmptyDist
FirstNineAtIndex(arr, i) == IF i \in DOMAIN arr THEN arr[i] ELSE FirstNine(None)
CheckoutAtIndex(arr, i) ==
    IF i \in DOMAIN arr THEN arr[i] ELSE Checkout(None, None, None, None, None)

\* dist[k] where a missing key reads as undefined (falsy)
DistGet(dist, k) == IF k \in DOMAIN dist THEN dist[k] ELSE 0

\* parseInt(k) || 0 on the keys of a distribution map
ParseInt(k) ==
    CASE k = "26" -> 26 [] k = "100" -> 100 [] k = "140" -> 140
      [] k = "141" -> 141 [] k = "160" -> 160 [] k = "171" -> 171
      [] k = "180" -> 180 [] OTHER -> 0

Count180s(dist) == DistGet(dist, "180")

\* a tally of the 140s that leaves the 180s out
Count140PlusNo180(dist) ==
    DistGet(dist, "140") + DistGet(dist, "141") + DistGet(dist, "160")
        + DistGet(dist, "171")

\* lines 165-173
Count140Plus(dist) ==
    DistGet(dist, "140") + DistGet(dist, "141") + DistGet(dist, "160")
        + DistGet(dist, "171") + Count180s(dist)

\* a tally of the 100s that is the bucket alone
Count100PlusAlone(dist) == DistGet(dist, "100")

\* lines 171-173
Count100Plus(dist) == DistGet(dist, "100") + Count140Plus(dist)

\* Math.max(...keys): -Infinity on an empty map, which JSON carries as null
HighestScore(dist) ==
    IF DOMAIN dist = {} THEN None
    ELSE LET ks == {ParseInt(k) : k \in DOMAIN dist}
         IN  Some(CHOOSE x \in ks : \A y \in ks : y <= x)

\* the record of one player of one match (lines 176-195)
BuildRecord(userId, eventName, matchId, player, firstNine, checkout, dist) ==
    [user_id |-> userId,
     name |-> player.name,
     match_id |-> matchId,
     event_name |-> eventName,
     legs_won |-> player.total_wins,
     legs_played |-> player.total_games,
     average |-> player.average_01,
     first_nine_avg |-> NumOrNull(firstNine.average),
     count_180s |-> Count180s(dist),
     count_140_plus |-> Count140Plus(dist),
     count_100_plus |-> Count100Plus(dist),
     highest_score |-> HighestScore(dist),
     checkout_efficiency |-> StrOrNull(checkout.efficiency),
     checkout_opportunities |-> NumOrZero(checkout.opportunities),
     checkouts_hit |-> NumOrZero(checkout.hit),
     highest_checkout |-> NumOrNull(checkout.highest),
     avg_finish |-> NumOrNull(checkout.average),
     card_link |-> StrOrNull(player.card_link)]

----------------------------------------------------------------------------
(* The aads_players table: a sequence of rows *)

\* the columns of the unique index aads_players_match_unique
KeyOf(row) == <<row.user_id, row.event_name, row.match_id, row.name>>

RowsAt(tbl, key) == {j \in 1..Len(tbl) : KeyOf(tbl[j]) = key}

\* a plain insert: no conflict target, the record is always added
UpsertAsInsert(tbl, rec) == Append(tbl, rec)

\* an upsert that merges: on conflict a null of the record keeps the old value
UpsertAsMerge(tbl, rec) ==
    IF RowsAt(tbl, KeyOf(rec)) = {}
    THEN Append(tbl, rec)
    ELSE [j \in 1..Len(tbl) |->
            IF KeyOf(tbl[j]) = KeyOf(rec)
            THEN [rec EXCEPT !.average = IF @ = None THEN tbl[j].average ELSE @,
                             !.card_link = IF @ = None THEN tbl[j].card_link ELSE @]
            ELSE tbl[j]]

\* INSERT ... ON CONFLICT (user_id,event_name,match_id,name) DO UPDATE: the
\* conflicting row takes every column of the record, else the record is added
Upsert(tbl, rec) ==
    IF RowsAt(tbl, KeyOf(rec)) = {}
    THEN Append(tbl, rec)
    ELSE [j \in 1..Len(tbl) |-> IF KeyOf(tbl[j]) = KeyOf(rec) THEN rec ELSE tbl[j]]

----------------------------------------------------------------------------
(* Discovery and the two retrievals *)

\* the event tokens the request URLs can carry
EventIds == UNION {EventIdMatch(u) : u \in Urls}

RECURSIVE SegmentIds(_)
SegmentIds(segs) ==
    IF segs = <<>> THEN <<>>
    ELSE (IF Head(segs).match_id = None THEN <<>>
          ELSE <<CHOOSE m \in Head(segs).match_id : TRUE>>)
         \o SegmentIds(Tail(segs))

RECURSIVE SectionIds(_)
SectionIds(secs) ==
    IF secs = <<>> THEN <<>>
    ELSE (IF Head(secs).hasSegments THEN SegmentIds(Head(secs).segments) ELSE <<>>)
         \o SectionIds(Tail(secs))

\* a sequence without its repeated elements (the first occurrence stays)
RECURSIVE Dedup(_)
Dedup(seq) ==
    IF seq = <<>> THEN <<>>
    ELSE LET front == Dedup(SubSeq(seq, 1, Len(seq) - 1))
         IN  IF seq[Len(seq)] \in Range(front) THEN front
             ELSE Append(front, seq[Len(seq)])

\* a collection that keeps one occurrence of each match id
CollectMatchIdsDedup(api2) ==
    IF api2.hasSections THEN Dedup(SectionIds(api2.sections)) ELSE <<>>

\* lines 92-105: every present match_id, sections then segments, in order
CollectMatchIds(api2) ==
    IF api2.hasSections THEN SectionIds(api2.sections) ELSE <<>>

\* the message of the SyntaxError JSON.parse throws
JsonParseMessage == "Unexpected token in JSON"

\* lines 127-139: the error thrown by the roster retrieval ("" when none) and
\* the players it yields
PlayersThrown(doc) ==
    IF ~doc.ok THEN "Failed to fetch players data: " \o ToString(doc.status)
    ELSE IF ~doc.marker THEN "Could not find Inertia data in players page"
    ELSE IF ~doc.json THEN JsonParseMessage
    ELSE ""
PlayersOf(doc) == IF doc.props.hasPlayers THEN doc.props.players ELSE <<>>

\* lines 142-156: the error thrown by the distribution retrieval ("" when none)
CountsThrown(doc) ==
    IF ~doc.ok THEN "Failed to fetch counts data: " \o ToString(doc.status)
    ELSE IF ~doc.marker THEN "Could not find Inertia data in counts page"
    ELSE IF ~doc.json THEN JsonParseMessage
    ELSE ""

\* error.message values of a failed upsert
DbErrors == {"connection lost"}
UpsertThrown(dbError) == "Supabase upsert failed: " \o dbError

----------------------------------------------------------------------------
(* One invocation of the handler *)

NoResponse == [status |-> 0, body |-> [success |-> FALSE, error |-> ""]]
ErrorResponse(code, msg) == [status |-> code, body |-> [success |-> FALSE, error |-> msg]]

NoCounts == [distribution |-> <<>>, first_nine |-> <<>>, checkout_stats |-> <<>>]
EmptySummary == [n \in {} |-> [match_count |-> 0, count_180s |-> 0]]

\* an upstream or database call issued by an invocation: its kind, the
\* position of the match in matchIds, the match, the player, the document served
Call(kind, pos, m, n, doc) ==
    [call |-> kind, pos |-> pos, match |-> m, name |-> n, doc |-> doc]

\* how one match ended: counted successful (ok) or caught at a stage with a
\* message, at player `at` of the roster that had been read
Outcome(rn, ok, stage, message) ==
    [match |-> rn.matchIds[rn.idx], ok |-> ok, stage |-> stage,
     message |-> message, at |-> rn.pi, roster |-> rn.players]

IdleRun ==
    [pc |-> "idle", event_url |-> <<>>, event_name |-> "", auth |-> None,
     user |-> "", eventId |-> <<>>, matchIds |-> <<>>, idx |-> 0,
     players |-> <<>>, counts |-> NoCounts, pi |-> 0,
     successful |-> 0, failed |-> 0, errors |-> <<>>,
     playerSummary |-> EmptySummary, response |-> NoResponse,
     \* history: the calls issued, the outcome of each match, in order
     log |-> <<>>, outcomes |-> <<>>,
     \* history across re-sent requests
     \* (the earlier run's outcomes, the table when it ended, the upstream
     \* changes seen when each run started)
     reruns |-> 0, prevOutcomes |-> <<>>, snap |-> <<>>,
     changesAtStart |-> 0, changesAtPrevStart |-> 0,
     \* a user_id the request body carries besides event_url and event_name
     \* (line 40 does not read it)
     body_user_id |-> None]

\* line 223: one entry of errors: string[]
ErrorEntry(matchId, message) ==
    [type |-> "string", text |-> "Match " \o matchId \o ": " \o message]

\* a summary that always carries the errors list
SummaryAlwaysErrors(rn) ==
    [status |-> 200,
     body |-> [success |-> TRUE,
               total_matches |-> Len(rn.matchIds),
               successful |-> rn.successful,
               failed |-> rn.failed,
               total_players |-> Cardinality(DOMAIN rn.playerSummary),
               players |-> rn.playerSummary,
               errors |-> rn.errors]]

\* lines 229-240: the summary; errors is undefined, hence left out of the JSON,
\* when no match failed
Summary(rn) ==
    LET base == [success |-> TRUE,
                 total_matches |-> Len(rn.matchIds),
                 successful |-> rn.successful,
                 failed |-> rn.failed,
                 total_players |-> Cardinality(DOMAIN rn.playerSummary),
                 players |-> rn.playerSummary]
    IN  [status |-> 200,
         body |-> IF Len(rn.errors) > 0
                  THEN [f \in DOMAIN base \cup {"errors"} |->
                           IF f = "errors" THEN rn.errors ELSE base[f]]
                  ELSE base]

\* the for loop moves to the next match, or ends and the summary is returned
NextMatch(rn) ==
    IF rn.idx < Len(rn.matchIds)
    THEN [rn EXCEPT !.idx = @ + 1, !.pc = "roster", !.players = <<>>,
                    !.counts = NoCounts, !.pi = 0]
    ELSE [rn EXCEPT !.pc = "done", !.response = Summary(rn), !.players = <<>>,
                    !.counts = NoCounts, !.pi = 0]

\* a handler without the try/catch of one match: the error reaches the outer
\* catch and ends the run
CatchMatchAbort(rn, stage, message) ==
    [rn EXCEPT !.pc = "done", !.response = ErrorResponse(500, message),
               !.outcomes = Append(@, Outcome(rn, FALSE, stage, message))]

\* a catch that leaves the loop: the matches after the failed one are skipped
CatchMatchStop(rn, stage, message) ==
    LET caught == [rn EXCEPT
            !.failed = @ + 1,
            !.errors = Append(@, ErrorEntry(rn.matchIds[rn.idx], message)),
            !.outcomes = Append(@, Outcome(rn, FALSE, stage, message))]
    IN  [caught EXCEPT !.pc = "done", !.response = Summary(caught)]

\* a catch that counts the failure and keeps no message of it
CatchMatchSilent(rn, stage, message) ==
    NextMatch([rn EXCEPT
        !.failed = @ + 1,
        !.outcomes = Append(@, Outcome(rn, FALSE, stage, message))])

\* lines 221-226: the catch of one match, then on to the next without delay
CatchMatch(rn, stage, message) ==
    NextMatch([rn EXCEPT
        !.failed = @ + 1,
        !.errors = Append(@, ErrorEntry(rn.matchIds[rn.idx], message)),
        !.outcomes = Append(@, Outcome(rn, FALSE, stage, message))])

\* a handler that counts successes once per player instead of once per match
MatchDonePerPlayer(rn) ==
    [rn EXCEPT !.successful = @ + Len(rn.players), !.pc = "delay",
               !.outcomes = Append(@, Outcome(rn, TRUE, "done", ""))]

\* line 216: the match is counted, the pacing delay starts
MatchDone(rn) ==
    [rn EXCEPT !.successful = @ + 1, !.pc = "delay",
               !.outcomes = Append(@, Outcome(rn, TRUE, "done", ""))]

\* what the invocations together have tallied for a player
SharedTally(name, field) ==
    LET F[S \in SUBSET Inv] ==
            IF S = {} THEN 0
            ELSE LET q == CHOOSE x \in S : TRUE
                 IN  (IF name \in DOMAIN run[q].playerSummary
                      THEN run[q].playerSummary[name][field] ELSE 0) + F[S \ {q}]
    IN  F[Inv]

\* an accumulator declared at module level: every invocation adds to, and
\* reports, what all of them have tallied
TrackSummaryShared(ps, name, count180) ==
    [n \in UNION {DOMAIN run[q].playerSummary : q \in Inv} \cup {name} |->
        IF n = name
        THEN [match_count |-> SharedTally(n, "match_count") + 1,
              count_180s |-> SharedTally(n, "count_180s") + count180]
        ELSE [match_count |-> SharedTally(n, "match_count"),
              count_180s |-> SharedTally(n, "count_180s")]]

\* a tally that keeps the 180s of the last record only
TrackSummaryOverwrite(ps, name, count180) ==
    [n \in DOMAIN ps \cup {name} |->
        IF n = name
        THEN IF n \in DOMAIN ps
             THEN [match_count |-> ps[n].match_count + 1, count_180s |-> count180]
             ELSE [match_count |-> 1, count_180s |-> count180]
        ELSE ps[n]]

\* lines 209-213
TrackSummary(ps, name, count180) ==
    [n \in DOMAIN ps \cup {name} |->
        IF n = name
        THEN IF n \in DOMAIN ps
             THEN [match_count |-> ps[n].match_count + 1,
                   count_180s |-> ps[n].count_180s + count180]
             ELSE [match_count |-> 1, count_180s |-> count180]
        ELSE ps[n]]

\* lines 36-52: the body is read; a missing event_url or event_name ends the run
Accept(rn, url, name, auth) ==
    LET got == [rn EXCEPT !.event_url = url, !.event_name = name, !.auth = auth,
                          !.changesAtStart = upChanges]
    IN  IF url = <<>> \/ name = ""
        THEN [got EXCEPT !.pc = "done",
                         !.response = ErrorResponse(400, "Missing required fields")]
        ELSE [got EXCEPT !.pc = "auth"]

Receive(r) ==
    /\ run[r].pc = "idle"
    /\ \E url \in Urls, name \in EventNames, auth \in {None} \cup {Some(u) : u \in Users} :
          run' = [run EXCEPT ![r] = Accept(run[r], url, name, auth)]
    /\ UNCHANGED <<store, upDiscovery, upRoster, upCounts, upChanges, stats, dash>>

\* lines 54-77: getUser, then the event id is cut out of the URL
Authenticate(r) ==
    /\ run[r].pc = "auth"
    /\ run' = [run EXCEPT ![r] =
          IF run[r].auth = None
          THEN [@ EXCEPT !.pc = "done",
                         !.response = ErrorResponse(401, "Not authenticated")]
          ELSE IF EventIdMatch(run[r].event_url) = None
          THEN [@ EXCEPT !.pc = "done",
                         !.response = ErrorResponse(400, "Invalid event URL format")]
          ELSE [@ EXCEPT !.pc = "discover",
                         !.user = CHOOSE u \in run[r].auth : TRUE,
                         !.eventId = CHOOSE t \in EventIdMatch(run[r].event_url) : TRUE]]
    /\ UNCHANGED <<store, upDiscovery, upRoster, upCounts, upChanges, stats, dash>>

\* the document the upstream serves: decided when first asked, then kept
Served(current, docs) == IF current = NoDoc THEN docs ELSE {current}

\* a handler without the empty check: the loop runs zero times and the summary
\* of zero matches is returned
AfterDiscoveryNoEmptyCheck(rn, doc) ==
    IF ~doc.ok
    THEN [rn EXCEPT !.pc = "done",
                    !.response = ErrorResponse(500,
                        "API2 request failed: " \o ToString(doc.status))]
    ELSE IF Len(CollectMatchIds(doc)) = 0
    THEN [rn EXCEPT !.pc = "done", !.response = Summary(rn)]
    ELSE [rn EXCEPT !.pc = "roster", !.matchIds = CollectMatchIds(doc), !.idx = 1]

\* a handler that does not test response.ok (87-89) and goes on to the loop
\* with the match the event lists
AfterDiscoveryIgnoreStatus(rn, doc) ==
    IF ~doc.ok
    THEN [rn EXCEPT !.pc = "roster", !.matchIds = <<"m1">>, !.idx = 1]
    ELSE IF Len(CollectMatchIds(doc)) = 0
    THEN [rn EXCEPT !.pc = "done",
                    !.response = ErrorResponse(400, "No matches found in event")]
    ELSE [rn EXCEPT !.pc = "roster", !.matchIds = CollectMatchIds(doc), !.idx = 1]

\* lines 87-114: the response of the matches request is read
AfterDiscovery(rn, doc) ==
    IF ~doc.ok
    THEN [rn EXCEPT !.pc = "done",
                    !.response = ErrorResponse(500,
                        "API2 request failed: " \o ToString(doc.status))]
    ELSE IF Len(CollectMatchIds(doc)) = 0
    THEN [rn EXCEPT !.pc = "done",
                    !.response = ErrorResponse(400, "No matches found in event")]
    ELSE [rn EXCEPT !.pc = "roster", !.matchIds = CollectMatchIds(doc), !.idx = 1]

\* lines 79-114: the matches request, the match ids, the empty check
Discover(r) ==
    /\ run[r].pc = "discover"
    /\ \E doc \in Served(upDiscovery[run[r].eventId], DiscoveryDocs) :
          /\ upDiscovery' = [upDiscovery EXCEPT ![run[r].eventId] = doc]
          /\ run' = [run EXCEPT ![r] =
                AfterDiscovery([@ EXCEPT
                    !.log = Append(@, Call("discovery", 0, "", "", doc))], doc)]
    /\ UNCHANGED <<store, upRoster, upCounts, upChanges, stats, dash>>

\* lines 128-139: the response of the roster request is read
AfterPlayers(rn, doc) ==
    IF PlayersThrown(doc) # ""
    THEN CatchMatch(rn, "roster", PlayersThrown(doc))
    ELSE [rn EXCEPT !.pc = "counts", !.players = PlayersOf(doc)]

\* lines 124-139: the roster retrieval of the current match
FetchPlayers(r) ==
    /\ run[r].pc = "roster"
    /\ LET m == run[r].matchIds[run[r].idx] IN
       \E doc \in Served(upRoster[m], RosterDocs(m)) :
          /\ upRoster' = [upRoster EXCEPT ![m] = doc]
          /\ run' = [run EXCEPT ![r] =
                AfterPlayers([@ EXCEPT
                    !.log = Append(@, Call("roster", run[r].idx, m, "", doc))], doc)]
    /\ UNCHANGED <<store, upDiscovery, upCounts, upChanges, stats, dash>>

\* a handler that swallows a failed distribution retrieval and builds the
\* records from empty secondary arrays
AfterCountsSwallow(rn, doc) ==
    IF CountsThrown(doc) # ""
    THEN IF Len(rn.players) = 0 THEN MatchDone(rn)
         ELSE [rn EXCEPT !.pc = "upsert", !.pi = 1]
    ELSE IF Len(rn.players) = 0
    THEN MatchDone([rn EXCEPT !.counts = doc.props])
    ELSE [rn EXCEPT !.pc = "upsert", !.counts = doc.props, !.pi = 1]

\* a handler that requires the three secondary arrays to cover the roster and
\* fails the match otherwise
AfterCountsStrict(rn, doc) ==
    IF CountsThrown(doc) # ""
    THEN CatchMatch(rn, "counts", CountsThrown(doc))
    ELSE IF \/ Len(doc.props.distribution) < Len(rn.players)
            \/ Len(doc.props.first_nine) < Len(rn.players)
            \/ Len(doc.props.checkout_stats) < Len(rn.players)
    THEN CatchMatch(rn, "counts", "Missing stats for a player")
    ELSE IF Len(rn.players) = 0
    THEN MatchDone([rn EXCEPT !.counts = doc.props])
    ELSE [rn EXCEPT !.pc = "upsert", !.counts = doc.props, !.pi = 1]

\* lines 143-159: the response of the counts request is read; the player loop
\* starts, or ends at once on an empty roster
AfterCounts(rn, doc) ==
    IF CountsThrown(doc) # ""
    THEN CatchMatch(rn, "counts", CountsThrown(doc))
    ELSE IF Len(rn.players) = 0
    THEN MatchDone([rn EXCEPT !.counts = doc.props])
    ELSE [rn EXCEPT !.pc = "upsert", !.counts = doc.props, !.pi = 1]

\* lines 141-156: the distribution retrieval; line 159 with an empty roster
FetchCounts(r) ==
    /\ run[r].pc = "counts"
    /\ LET m == run[r].matchIds[run[r].idx] IN
       \E doc \in Served(upCounts[m], CountsDocs(m)) :
          /\ upCounts' = [upCounts EXCEPT ![m] = doc]
          /\ run' = [run EXCEPT ![r] =
                AfterCounts([@ EXCEPT
                    !.log = Append(@, Call("counts", run[r].idx, m, "", doc))], doc)]
    /\ UNCHANGED <<store, upDiscovery, upRoster, upChanges, stats, dash>>

\* a record filed under the user_id of the request body when it has one
CurrentRecordBodyScope(rn) ==
    BuildRecord(IF rn.body_user_id = None THEN rn.user
                ELSE CHOOSE u \in rn.body_user_id : TRUE,
                rn.event_name, rn.matchIds[rn.idx], rn.players[rn.pi],
                FirstNineAtIndex(rn.counts.first_nine, rn.pi),
                CheckoutAtIndex(rn.counts.checkout_stats, rn.pi),
                DistAtIndex(rn.counts.distribution, rn.pi))

\* a record that carries something of the moment it is built: here the
\* number of rows the table holds, in the place of the card link
CurrentRecordStamped(rn) ==
    [BuildRecord(rn.user, rn.event_name, rn.matchIds[rn.idx], rn.players[rn.pi],
                 FirstNineAtIndex(rn.counts.first_nine, rn.pi),
                 CheckoutAtIndex(rn.counts.checkout_stats, rn.pi),
                 DistAtIndex(rn.counts.distribution, rn.pi))
        EXCEPT !.card_link = Some(ToString(Len(store)))]

\* the record of player pi of the current match
CurrentRecord(rn) ==
    BuildRecord(rn.user, rn.event_name, rn.matchIds[rn.idx], rn.players[rn.pi],
                FirstNineAtIndex(rn.counts.first_nine, rn.pi),
                CheckoutAtIndex(rn.counts.checkout_stats, rn.pi),
                DistAtIndex(rn.counts.distribution, rn.pi))

\* a player loop that does not wait for the upserts of the remaining players:
\* the match is counted after the first one
AfterUpsertNoAwait(rn, rec) ==
    MatchDone([rn EXCEPT
        !.playerSummary = TrackSummary(@, rec.name, rec.count_180s)])

\* a player loop that also ends where the distribution array ends
AfterUpsertWithinCounts(rn, rec) ==
    LET tracked == [rn EXCEPT
            !.playerSummary = TrackSummary(@, rec.name, rec.count_180s)]
    IN  IF rn.pi < Len(rn.players) /\ rn.pi < Len(rn.counts.distribution)
        THEN [tracked EXCEPT !.pi = @ + 1]
        ELSE MatchDone(tracked)

\* lines 204-216: after a successful upsert
AfterUpsert(rn, rec) ==
    LET tracked == [rn EXCEPT
            !.playerSummary = TrackSummary(@, rec.name, rec.count_180s)]
    IN  IF rn.pi < Len(rn.players)
        THEN [tracked EXCEPT !.pi = @ + 1]
        ELSE MatchDone(tracked)

\* lines 159-214: one turn of the player loop: build, upsert, track
UpsertPlayer(r) ==
    /\ run[r].pc = "upsert"
    /\ LET rec == CurrentRecord(run[r])
           called == [run[r] EXCEPT
               !.log = Append(@, Call("upsert", run[r].idx, rec.match_id, rec.name,
                                      NoDoc))]
       IN  \/ /\ store' = Upsert(store, rec)
              /\ run' = [run EXCEPT ![r] = AfterUpsert(called, rec)]
           \/ /\ \E e \in DbErrors :
                    run' = [run EXCEPT ![r] =
                       CatchMatch(called, "upsert", UpsertThrown(e))]
              /\ UNCHANGED store
    /\ UNCHANGED <<upDiscovery, upRoster, upCounts, upChanges, stats, dash>>

\* line 219: the pacing delay after a successful match
Delay(r) ==
    /\ run[r].pc = "delay"
    /\ run' = [run EXCEPT ![r] =
          NextMatch([@ EXCEPT !.log = Append(@, Call("delay", run[r].idx,
                                  run[r].matchIds[run[r].idx], "", NoDoc))])]
    /\ UNCHANGED <<store, upDiscovery, upRoster, upCounts, upChanges, stats, dash>>

\* the operator sends the same request again once the summary is back
Again(r) ==
    /\ run[r].pc = "done"
    /\ run[r].reruns < MaxReruns
    /\ run' = [run EXCEPT ![r] =
          Accept([IdleRun EXCEPT !.reruns = run[r].reruns + 1,
                                 !.prevOutcomes = run[r].outcomes,
                                 !.changesAtPrevStart = run[r].changesAtStart,
                                 !.snap = store],
                 run[r].event_url, run[r].event_name, run[r].auth)]
    /\ UNCHANGED <<store, upDiscovery, upRoster, upCounts, upChanges, stats, dash>>

\* the pages that carry data
DataPages(docs) == {d \in docs : d.ok /\ d.marker /\ d.json}

\* the upstream site publishes another roster or distribution page of a match
UpstreamChange ==
    /\ upChanges < MaxUpstreamChanges
    /\ upChanges' = upChanges + 1
    /\ \E m \in MatchIds :
          \/ /\ upRoster[m] # NoDoc
             /\ \E doc \in DataPages(RosterDocs(m)) \ {upRoster[m]} :
                   upRoster' = [upRoster EXCEPT ![m] = doc]
             /\ UNCHANGED upCounts
          \/ /\ upCounts[m] # NoDoc
             /\ \E doc \in DataPages(CountsDocs(m)) \ {upCounts[m]} :
                   upCounts' = [upCounts EXCEPT ![m] = doc]
             /\ UNCHANGED upRoster
    /\ UNCHANGED <<store, upDiscovery, run, stats, dash>>

\* the stats function before a request (overlay.js 754-881)
NoReaderResponse == [status |-> 0]
IdleReader ==
    [pc |-> "idle", player |-> None, allPlayers |-> <<>>, players |-> <<>>,
     response |-> NoReaderResponse, queries |-> <<>>]

\* the dashboard page before its script runs (overlay.js 13-30): the module
\* variables currentData, refreshInterval, and the page around them
NoClick ==
    [target |-> "none", inited |-> FALSE, wasHidden |-> TRUE, opened |-> FALSE,
     answer |-> None]
DashUnloaded ==
    [readyState |-> "loading", script |-> "notrun", onLoaded |-> FALSE,
     inited |-> FALSE, wired |-> FALSE, panelHidden |-> TRUE,
     currentData |-> None, shown |-> "nothing",
     refreshInterval |-> None, timers |-> {}, ticks |-> 0,
     inflight |-> {}, issued |-> 0, clicks |-> 0, lastClick |-> NoClick,
     \* the stats request sent last, the stats requests answered with
     \* success true, and the calls of startAutoRefresh and stopAutoRefresh
     \* made from outside init
     latestStats |-> 0, gotData |-> {}, timerCalls |-> 0]

Init ==
    /\ stats = IdleReader
    /\ dash = DashUnloaded
    /\ store = <<>>
    /\ upDiscovery = [t \in EventIds |-> NoDoc]
    /\ upRoster = [m \in MatchIds |-> NoDoc]
    /\ upCounts = [m \in MatchIds |-> NoDoc]
    /\ upChanges = 0
    /\ run = [r \in Inv |-> IdleRun]

Step(r) ==
    \/ Receive(r)
    \/ Authenticate(r)
    \/ Discover(r)
    \/ FetchPlayers(r)
    \/ FetchCounts(r)
    \/ UpsertPlayer(r)
    \/ Delay(r)

\* one invocation, one request
Next == Step(1) \/ UpstreamChange
Spec == Init /\ [][Next]_vars

\* one invocation whose request is sent again: a well-formed request of an
\* authenticated caller has been read, for an event of at most two matches
TwiceDocs == {d \in DiscoveryDocs : d.ok /\ Len(CollectMatchIds(d)) \in {1, 2}}
InitTwice ==
    /\ stats = IdleReader
    /\ dash = DashUnloaded
    /\ store = <<>>
    /\ \E d \in TwiceDocs : upDiscovery = [t \in EventIds |-> d]
    /\ upRoster = [m \in MatchIds |-> NoDoc]
    /\ upCounts = [m \in MatchIds |-> NoDoc]
    /\ upChanges = 0
    /\ run = [r \in Inv |->
                IF r = 1 THEN Accept(IdleRun, UrlLong, "E1", Some("u1")) ELSE IdleRun]

Resume(r) ==
    \/ Authenticate(r)
    \/ Discover(r)
    \/ FetchPlayers(r)
    \/ FetchCounts(r)
    \/ UpsertPlayer(r)
    \/ Delay(r)

NextTwice == Resume(1) \/ Again(1) \/ UpstreamChange
SpecTwice == InitTwice /\ [][NextTwice]_vars

\* two invocations at the same time, each with a well-formed request read,
\* for the same event, which lists one match once or twice; the callers may
\* differ
ConcDocs ==
    {d \in DiscoveryDocs : d.ok /\ Len(CollectMatchIds(d)) > 0
                                /\ Range(CollectMatchIds(d)) = {"m1"}}
InitConc ==
    /\ stats = IdleReader
    /\ dash = DashUnloaded
    /\ store = <<>>
    /\ \E d \in ConcDocs : upDiscovery = [t \in EventIds |-> d]
    /\ upRoster = [m \in MatchIds |-> NoDoc]
    /\ upCounts = [m \in MatchIds |-> NoDoc]
    /\ upChanges = 0
    /\ \E u \in Users :
          run = [r \in Inv |->
                   Accept(IdleRun, UrlPlain, "E1", IF r = 1 THEN Some("u1") ELSE Some(u))]

NextConc == (\E r \in Inv : Resume(r)) \/ UpstreamChange
SpecConc == InitConc /\ [][NextConc]_vars

----------------------------------------------------------------------------
(* Record construction over its inputs: one match, whose roster and          *)
(* distribution page are drawn from the sets below                           *)

\* the counts a distribution map can hold
TallyValues == {0, 2}

\* every distribution map over the score keys
AllDists == UNION {[ks -> TallyValues] : ks \in SUBSET ScoreKeys}

\* a map with a negative value, which the arithmetic of lines 165-173 takes
\* as it comes
DistNegative == [k \in {"100", "180"} |-> IF k = "100" THEN -1 ELSE 2]

\* every checkout_stats entry over absent, zero/empty and plain values
AllCheckouts ==
    {Checkout(e, o, h, hi, a) :
        e \in {None, Some(""), Some("40%")}, o \in {None, Some(0), Some(5)},
        h \in {None, Some(0), Some(2)}, hi \in {None, Some(0), Some(120)},
        a \in {None, Some(0), Some(60)}}

\* the arrays of at most two entries over a set of entries
UpToTwo(S) == {<<>>} \cup {<<x>> : x \in S} \cup {<<x, y>> : x \in S, y \in S}

\* <<roster page, distribution page>> of the match
BuildSeeds ==
    {<<Roster(<<AnnV1>>), Counts(<<d>>, <<FirstNine(Some(85))>>, <<>>)>> :
        d \in AllDists \cup {DistNegative}}
    \cup {<<Roster(<<AnnV1>>), Counts(<<DistExample>>, <<>>, <<c>>)>> :
        c \in AllCheckouts}
    \cup {<<Roster(<<AnnV1>>),
             Counts(<<DistExample, DistLow>>,
                    <<FirstNine(Some(85)), FirstNine(Some(0))>>, c)>> :
        c \in UpToTwo({Checkout(Some("40%"), Some(5), Some(2), Some(120), Some(60))})}
    \cup {<<ro, Counts(d, <<>>, <<>>)>> :
        ro \in {Roster(<<>>), RosterNoPlayers}, d \in UpToTwo({DistExample})}
    \cup {<<Roster(<<AnnV1, BobV1>>), Counts(d, f, c)>> :
        d \in UpToTwo({EmptyDist, DistExample, DistLow}),
        f \in UpToTwo({FirstNine(None), FirstNine(Some(0)), FirstNine(Some(85))}),
        c \in UpToTwo({Checkout(None, None, None, None, None),
                       Checkout(Some(""), Some(0), Some(0), Some(0), Some(0)),
                       Checkout(Some("40%"), Some(5), Some(2), Some(120), Some(60))})}

InitBuild ==
    /\ stats = IdleReader
    /\ dash = DashUnloaded
    /\ store = <<>>
    /\ upDiscovery = [t \in EventIds |-> Api2(<<Section(<<Seg(Some("m1"))>>)>>)]
    /\ \E s \in BuildSeeds :
          /\ upRoster = [m \in MatchIds |-> IF m = "m1" THEN s[1] ELSE NoDoc]
          /\ upCounts = [m \in MatchIds |-> IF m = "m1" THEN s[2] ELSE NoDoc]
    /\ upChanges = 0
    /\ run = [r \in Inv |->
                IF r = 1 THEN Accept(IdleRun, UrlPlain, "E1", Some("u1")) ELSE IdleRun]

NextBuild == Resume(1)
SpecBuild == InitBuild /\ [][NextBuild]_vars

----------------------------------------------------------------------------
(* A run the host cuts off, and the request sent again *)

\* the host ends the invocation at its wall-clock ceiling: whatever the
\* handler was about to do is not done and no response is produced
Cut(r) ==
    /\ run[r].pc \notin {"idle", "done", "cut"}
    /\ run' = [run EXCEPT ![r].pc = "cut"]
    /\ UNCHANGED <<store, upDiscovery, upRoster, upCounts, upChanges, stats, dash>>

\* the operator sends the same request again after the cut
Retry(r) ==
    /\ run[r].pc = "cut"
    /\ run[r].reruns < MaxReruns
    /\ run' = [run EXCEPT ![r] =
          Accept([IdleRun EXCEPT !.reruns = run[r].reruns + 1,
                                 !.prevOutcomes = run[r].outcomes,
                                 !.changesAtPrevStart = run[r].changesAtStart,
                                 !.snap = store],
                 run[r].event_url, run[r].event_name, run[r].auth)]
    /\ UNCHANGED <<store, upDiscovery, upRoster, upCounts, upChanges, stats, dash>>

NextCut == Resume(1) \/ Cut(1) \/ Retry(1)
SpecCut == InitTwice /\ [][NextCut]_vars

----------------------------------------------------------------------------
(* The stats function (the Deno.serve handler at static/js/overlay.js      *)
(* 754-881) and the relation player_stats it selects from                   *)

\* a non-negative rational number, kept in lowest terms
RECURSIVE GCD(_, _)
GCD(a, b) == IF b = 0 THEN a ELSE GCD(b, a % b)
Ratio(n, d) == [num |-> n \div GCD(n, d), den |-> d \div GCD(n, d)]
RatioLess(p, q) == p.num * q.den < q.num * p.den

\* the value of a present nullable
TheValue(x) == CHOOSE v \in x : TRUE

\* the rows of a player in the table, and the sum of the values of a function
RowsOfPlayer(tbl, name) == {j \in 1..Len(tbl) : tbl[j].name = name}
SumOf(f) ==
    LET F[T \in SUBSET DOMAIN f] ==
            IF T = {} THEN 0
            ELSE LET j == CHOOSE x \in T : TRUE
                 IN  f[j] + F[T \ {j}]
    IN  F[DOMAIN f]

\* a mean of the averages that gives every record the same weight
UnweightedAverage(tbl, name) ==
    LET withAvg == {j \in RowsOfPlayer(tbl, name) : tbl[j].average # None}
    IN  IF withAvg = {} THEN None
        ELSE Some(Ratio(SumOf([j \in withAvg |-> TheValue(tbl[j].average)]),
                        Cardinality(withAvg)))

\* weighted_average = sum(average_i * legs_played_i) / sum(legs_played_i) over
\* the records of the player; a record without an average adds nothing to the
\* numerator, and there is no value when no record has one or no leg was
\* played
WeightedAverage(tbl, name) ==
    LET rows == RowsOfPlayer(tbl, name)
        withAvg == {j \in rows : tbl[j].average # None /\ tbl[j].legs_played # None}
        num == SumOf([j \in withAvg |->
                         TheValue(tbl[j].average) * TheValue(tbl[j].legs_played)])
        den == SumOf([j \in rows |-> NumOrZero(tbl[j].legs_played)])
    IN  IF withAvg = {} \/ den = 0 THEN None ELSE Some(Ratio(num, den))

\* the largest present value of a nullable column over rows, if any
MaxOf(vals) ==
    IF vals = {} THEN None ELSE Some(CHOOSE v \in vals : \A w \in vals : w <= v)

\* the row of player_stats for a player: the aggregate view over the records
\* of that name (no winner is registered, so nobody is qualified)
PlayerStatsRow(tbl, name) ==
    LET rows == RowsOfPlayer(tbl, name)
    IN  [name |-> name,
         weighted_3da |-> WeightedAverage(tbl, name),
         legs_played |-> SumOf([j \in rows |-> NumOrZero(tbl[j].legs_played)]),
         legs_won |-> SumOf([j \in rows |-> NumOrZero(tbl[j].legs_won)]),
         total_180s |-> SumOf([j \in rows |-> tbl[j].count_180s]),
         total_140plus |-> SumOf([j \in rows |-> tbl[j].count_140_plus]),
         total_100plus |-> SumOf([j \in rows |-> tbl[j].count_100_plus]),
         high_finish |-> MaxOf(UNION {tbl[j].highest_checkout : j \in rows}),
         events_played |-> Cardinality({tbl[j].event_name : j \in rows}),
         is_qualified |-> FALSE]

\* player_stats: one row per player name of the table
PlayerStats(tbl) == {PlayerStatsRow(tbl, tbl[j].name) : j \in 1..Len(tbl)}

\* ORDER BY weighted_3da DESC with no NULLS clause: PostgreSQL sorts a null as
\* larger than every value, so a row may precede another when its average is
\* null or not smaller
MayPrecede(a, b) ==
    \/ a.weighted_3da = None
    \/ /\ b.weighted_3da # None
       /\ ~RatioLess(TheValue(a.weighted_3da), TheValue(b.weighted_3da))

\* lines 807-811: the orders in which the select may return the rows (rows
\* with equal averages come in either order)
DescOrders(rows) ==
    {s \in [1..Cardinality(rows) -> rows] :
        /\ \A i, j \in DOMAIN s : i # j => s[i] # s[j]
        /\ \A i, j \in DOMAIN s : i < j => MayPrecede(s[i], s[j])}

\* x || 0 on a nullable rational: null and 0 both give 0
RatioOrZero(x) == IF x = None THEN Ratio(0, 1) ELSE TheValue(x)

\* lines 825-837: the rows as returned, ranked by position
MapPlayers(allPlayers) ==
    [i \in DOMAIN allPlayers |->
        [rank |-> i,
         name |-> allPlayers[i].name,
         weighted_3da |-> RatioOrZero(allPlayers[i].weighted_3da),
         legs_played |-> allPlayers[i].legs_played,
         legs_won |-> allPlayers[i].legs_won,
         total_180s |-> allPlayers[i].total_180s,
         total_140plus |-> allPlayers[i].total_140plus,
         total_100plus |-> allPlayers[i].total_100plus,
         high_finish |-> NumOrZero(allPlayers[i].high_finish),
         events_played |-> allPlayers[i].events_played,
         is_qualified |-> allPlayers[i].is_qualified]]

\* a query the function sent to the database
Query(table, op) == [table |-> table, op |-> op]

\* url.searchParams.get('player'): null, or the string given
ReaderParams == {None, Some(""), Some("Ann"), Some("Bob"), Some("Zed")}

\* lines 767-770: the request is read; an empty player parameter is falsy
ReaderRequest ==
    /\ stats.pc = "idle"
    /\ \E p \in ReaderParams :
          stats' = [stats EXCEPT !.player = p,
                                 !.pc = IF StrOrNull(p) # None THEN "player"
                                        ELSE "leaderboard"]
    /\ UNCHANGED <<store, upDiscovery, upRoster, upCounts, upChanges, run, dash>>

\* lines 780-805: the body of a found player: the columns as they are
PlayerBody(row) ==
    [player |-> row.name,
     stats |-> [weighted_3da |-> row.weighted_3da,
                legs_played |-> row.legs_played,
                legs_won |-> row.legs_won,
                total_180s |-> row.total_180s,
                total_140plus |-> row.total_140plus,
                total_100plus |-> row.total_100plus,
                high_finish |-> row.high_finish,
                events_played |-> row.events_played,
                is_qualified |-> row.is_qualified]]

\* lines 772-805: one player: .single() gives an error unless exactly one row
\* matches; an error or no row is 404
ReadPlayer ==
    /\ stats.pc = "player"
    /\ LET found == {row \in PlayerStats(store) : Some(row.name) = stats.player}
       IN  \E dbError \in BOOLEAN :
              stats' = [stats EXCEPT
                  !.pc = "done",
                  !.queries = Append(@, Query("player_stats", "select")),
                  !.response =
                      IF dbError \/ Cardinality(found) # 1
                      THEN [status |-> 404, error |-> "Player not found"]
                      ELSE [status |-> 200,
                            body |-> PlayerBody(CHOOSE row \in found : TRUE)]]
    /\ UNCHANGED <<store, upDiscovery, upRoster, upCounts, upChanges, run, dash>>

\* a leaderboard read that stores the average it reports in the records
ReadLeaderboardWriteBack ==
    /\ stats.pc = "leaderboard"
    /\ \E ord \in DescOrders(PlayerStats(store)) :
          stats' = [stats EXCEPT
              !.pc = "org",
              !.queries = Append(@, Query("player_stats", "select")),
              !.allPlayers = ord,
              !.players = MapPlayers(ord)]
    /\ store' = [j \in DOMAIN store |->
                    LET w == WeightedAverage(store, store[j].name)
                    IN  IF w = None THEN store[j]
                        ELSE [store[j] EXCEPT
                                 !.average = Some(TheValue(w).num \div TheValue(w).den)]]
    /\ UNCHANGED <<upDiscovery, upRoster, upCounts, upChanges, run, dash>>

\* lines 807-837: the leaderboard: an error is 500, else the rows are ranked
ReadLeaderboard ==
    /\ stats.pc = "leaderboard"
    /\ \/ stats' = [stats EXCEPT
              !.pc = "done",
              !.queries = Append(@, Query("player_stats", "select")),
              !.response = [status |-> 500, error |-> "Error fetching stats"]]
       \/ \E ord \in DescOrders(PlayerStats(store)) :
              stats' = [stats EXCEPT
                  !.pc = "org",
                  !.queries = Append(@, Query("player_stats", "select")),
                  !.allPlayers = ord,
                  !.players = MapPlayers(ord)]
    /\ UNCHANGED <<store, upDiscovery, upRoster, upCounts, upChanges, run, dash>>

\* what the select on organizations can give: no row (or an error), a row of
\* nulls, a filled row
OrgRows ==
    {None,
     Some([name |-> None, total_events |-> None, current_event |-> None]),
     Some([name |-> Some("Series"), total_events |-> Some(6),
           current_event |-> Some(2)])}

\* lines 846-854: the organization with its defaults
Organization(orgData) ==
    IF orgData = None
    THEN [name |-> "AADS", total_events |-> 7, current_event |-> 1]
    ELSE LET o == TheValue(orgData)
         IN  [name |-> IF StrOrNull(o.name) = None THEN "AADS" ELSE TheValue(o.name),
              total_events |-> IF NumOrNull(o.total_events) = None THEN 7
                               ELSE TheValue(o.total_events),
              current_event |-> IF NumOrNull(o.current_event) = None THEN 1
                                ELSE TheValue(o.current_event)]

\* the sum of a field over the ranked players
SumPlayers(players, field) ==
    LET F[k \in 0..Len(players)] ==
            IF k = 0 THEN 0 ELSE F[k - 1] + players[k][field]
    IN  F[Len(players)]

\* lines 839-870: the organization is read and the response is returned
ReadOrganization ==
    /\ stats.pc = "org"
    /\ \E orgData \in OrgRows :
          stats' = [stats EXCEPT
              !.pc = "done",
              !.queries = Append(@, Query("organizations", "select")),
              !.response =
                  [status |-> 200,
                   body |-> [organization |-> Organization(orgData),
                             stats |-> [total_players |-> Len(stats.players),
                                        total_legs_played |->
                                            SumPlayers(stats.players, "legs_played"),
                                        total_180s |->
                                            SumPlayers(stats.players, "total_180s"),
                                        qualified_players |-> Cardinality(
                                            {i \in DOMAIN stats.players :
                                                stats.players[i].is_qualified})],
                             players |-> stats.players]]]
    /\ UNCHANGED <<store, upDiscovery, upRoster, upCounts, upChanges, run, dash>>

\* a record as a scrape of caller u1 stores it for event E1
StoredRecord(m, n, a, g) ==
    BuildRecord("u1", "E1", m, Player(n, g, Some(1), a, None), FirstNine(None),
                Checkout(None, None, None, None, None),
                IF n = "Ann" THEN DistExample ELSE DistLow)

\* the tables the function is asked over: any choice of a record or none per
\* key, among records with and without an average and legs
ReadTables ==
    {a1 \o a2 \o b1 :
        a1 \in {<<>>, <<StoredRecord("m1", "Ann", Some(80), Some(5))>>,
                <<StoredRecord("m1", "Ann", None, Some(10))>>,
                <<StoredRecord("m1", "Ann", Some(80), Some(0))>>},
        a2 \in {<<>>, <<StoredRecord("m2", "Ann", Some(90), Some(10))>>},
        b1 \in {<<>>, <<StoredRecord("m1", "Bob", Some(61), Some(2))>>,
                <<StoredRecord("m1", "Bob", Some(80), Some(5))>>,
                <<StoredRecord("m1", "Bob", Some(90), None)>>}}

InitRead ==
    /\ stats = IdleReader
    /\ dash = DashUnloaded
    /\ store \in ReadTables
    /\ upDiscovery = [t \in EventIds |-> NoDoc]
    /\ upRoster = [m \in MatchIds |-> NoDoc]
    /\ upCounts = [m \in MatchIds |-> NoDoc]
    /\ upChanges = 0
    /\ run = [r \in Inv |-> IdleRun]

NextRead == ReaderRequest \/ ReadPlayer \/ ReadLeaderboard \/ ReadOrganization
SpecRead == InitRead /\ [][NextRead]_vars

----------------------------------------------------------------------------
(* The dashboard script (static/js/overlay.js 1-744) in its page: the page  *)
(* loads, the script runs, the user clicks, the timer ticks, responses come *)
(* back in any order                                                        *)

\* a request the page has sent, numbered in the order sent: what for, and
\* what made the page send it (the click, for a request that follows from a
\* click, else 0)
Sent(id, kind, by, click) == [id |-> id, kind |-> kind, by |-> by, click |-> click]

\* fetch(...): the request leaves the page and is in flight
Issue(d, kind, by, click) ==
    [d EXCEPT !.issued = @ + 1,
              !.inflight = @ \cup {Sent(d.issued + 1, kind, by, click)},
              !.latestStats = IF kind = "stats" THEN d.issued + 1 ELSE @]

\* a start that sets a new interval without clearing the one that exists
startAutoRefreshNoClear(d) ==
    LET id == IF d.refreshInterval = None THEN 1
              ELSE TheValue(d.refreshInterval) + 1
    IN  [d EXCEPT !.timers = @ \cup {id}, !.refreshInterval = Some(id)]

\* lines 410-423: an interval that exists is cleared, a new one is set
startAutoRefresh(d) ==
    LET id == IF d.refreshInterval = None THEN 1
              ELSE TheValue(d.refreshInterval) + 1
    IN  [d EXCEPT !.timers = (@ \ d.refreshInterval) \cup {id},
                  !.refreshInterval = Some(id)]

\* lines 428-434: an interval that exists is cleared and forgotten
stopAutoRefresh(d) ==
    IF d.refreshInterval = None THEN d
    ELSE [d EXCEPT !.timers = @ \ d.refreshInterval, !.refreshInterval = None]

\* lines 35-49: init(): listeners of the leaderboard, first load, auto-refresh
init(d) ==
    startAutoRefresh(Issue([d EXCEPT !.inited = TRUE], "stats", "init", 0))

\* lines 445-479: the Manage button, the forms and the reset button get their
\* listeners, and the player list is loaded
setupManagementListeners(d) ==
    Issue([d EXCEPT !.wired = TRUE], "players", "setup", 0)

\* lines 436-442: the script runs, while the document is still loading or
\* after; in the first case only init is registered for DOMContentLoaded
RunScript ==
    /\ dash.script = "notrun"
    /\ dash' = IF dash.readyState = "loading"
               THEN [dash EXCEPT !.script = "run", !.onLoaded = TRUE]
               ELSE setupManagementListeners(init([dash EXCEPT !.script = "run"]))
    /\ UNCHANGED <<store, upDiscovery, upRoster, upCounts, upChanges, run, stats>>

\* the document has been parsed: DOMContentLoaded calls what was registered
DomContentLoaded ==
    /\ dash.readyState = "loading"
    /\ dash' = LET d == [dash EXCEPT !.readyState = "interactive"]
               IN  IF dash.onLoaded THEN init(d) ELSE d
    /\ UNCHANGED <<store, upDiscovery, upRoster, upCounts, upChanges, run, stats>>

\* a click of the user, as the page took it
Click(target, d, answer) ==
    [target |-> target, inited |-> d.inited, wasHidden |-> d.panelHidden,
     opened |-> target = "manage" /\ d.wired /\ d.panelHidden, answer |-> answer]

\* lines 482-496: toggleManagementPanel
toggleManagementPanel(d) == [d EXCEPT !.panelHidden = ~@]

\* the user clicks Manage: the panel toggles when the listener is there
ClickManage ==
    /\ dash.clicks < MaxClicks
    /\ LET clicked == [dash EXCEPT !.clicks = @ + 1,
                                   !.lastClick = Click("manage", dash, None)]
       IN  dash' = IF dash.wired THEN toggleManagementPanel(clicked) ELSE clicked
    /\ UNCHANGED <<store, upDiscovery, upRoster, upCounts, upChanges, run, stats>>

\* a reset handler that does not ask
handleResetDatabaseNoConfirm(d, c, answer) == Issue(d, "reset", "click", c)

\* lines 636-650: handleResetDatabase up to its fetch: confirm(), return when
\* declined, else POST /api/reset-database
handleResetDatabase(d, c, answer) ==
    IF ~answer THEN d ELSE Issue(d, "reset", "click", c)

\* the user clicks Reset Database and answers the dialog, if one is shown
ClickReset ==
    /\ dash.clicks < MaxClicks
    /\ \/ /\ ~dash.wired
          /\ dash' = [dash EXCEPT !.clicks = @ + 1,
                                  !.lastClick = Click("reset", dash, None)]
       \/ /\ dash.wired
          /\ \E answer \in BOOLEAN :
                dash' = handleResetDatabase(
                    [dash EXCEPT !.clicks = @ + 1,
                                 !.lastClick = Click("reset", dash, Some(answer))],
                    dash.clicks + 1, answer)
    /\ UNCHANGED <<store, upDiscovery, upRoster, upCounts, upChanges, run, stats>>

\* lines 650-662: the answer to the reset: on success the leaderboard and the
\* player list are loaded again; else, as after a failed connection, only a
\* status message is shown (it goes away by itself and is left out)
ResetResponse ==
    /\ \E q \in dash.inflight :
          /\ q.kind = "reset"
          /\ LET d == [dash EXCEPT !.inflight = @ \ {q}]
                 c == q.click
             IN  \/ dash' = Issue(Issue(d, "stats", "reset", c), "players", "reset", c)
                 \/ dash' = d
    /\ UNCHANGED <<store, upDiscovery, upRoster, upCounts, upChanges, run, stats>>

\* how a stats request can end: a body with success true, a body without,
\* a non-success HTTP status, no response at all
StatsOutcomes == {"success", "apiError", "httpError", "networkError"}

\* the request is answered, with data or not
Answered(d, q, outcome) ==
    [d EXCEPT !.inflight = @ \ {q},
              !.gotData = IF outcome = "success" THEN @ \cup {q.id} ELSE @]

\* a handler that keeps the body of every answer that has one
fetchAndUpdateStatsKeepAny(d, q, outcome) ==
    IF outcome \in {"success", "apiError"}
    THEN [Answered(d, q, outcome) EXCEPT !.currentData = Some(q.id),
                                         !.shown = "data"]
    ELSE [Answered(d, q, outcome) EXCEPT !.shown = "error"]

\* a handler that drops the answer of a request that is not the last one sent
fetchAndUpdateStatsLatestOnly(d, q, outcome) ==
    IF q.id # d.latestStats THEN Answered(d, q, outcome)
    ELSE IF outcome = "success"
    THEN [Answered(d, q, outcome) EXCEPT !.currentData = Some(q.id),
                                         !.shown = "data"]
    ELSE [Answered(d, q, outcome) EXCEPT !.shown = "error"]

\* lines 97-113: fetchAndUpdateStats after its await: data of a successful
\* answer becomes currentData and is displayed; an HTTP error, an answer
\* without success or a failed connection shows an error
fetchAndUpdateStats(d, q, outcome) ==
    IF outcome = "success"
    THEN [Answered(d, q, outcome) EXCEPT !.currentData = Some(q.id),
                                         !.shown = "data"]
    ELSE [Answered(d, q, outcome) EXCEPT !.shown = "error"]

\* the answer to a stats request arrives, whichever request it is
StatsResponse ==
    /\ \E q \in dash.inflight :
          /\ q.kind = "stats"
          /\ \E outcome \in StatsOutcomes :
                dash' = fetchAndUpdateStats(dash, q, outcome)
    /\ UNCHANGED <<store, upDiscovery, upRoster, upCounts, upChanges, run, stats>>

\* lines 666-687: the answer to loadPlayerList: the options of the winner
\* select are rebuilt, or the error is logged
PlayersResponse ==
    /\ \E q \in dash.inflight :
          /\ q.kind = "players"
          /\ dash' = [dash EXCEPT !.inflight = @ \ {q}]
    /\ UNCHANGED <<store, upDiscovery, upRoster, upCounts, upChanges, run, stats>>

\* lines 417-420: the interval fires
Tick ==
    /\ dash.timers # {}
    /\ dash.ticks < MaxTicks
    /\ dash' = Issue([dash EXCEPT !.ticks = @ + 1], "stats", "timer", 0)
    /\ UNCHANGED <<store, upDiscovery, upRoster, upCounts, upChanges, run, stats>>

InitDash ==
    /\ stats = IdleReader
    /\ dash = DashUnloaded
    /\ store = <<>>
    /\ upDiscovery = [t \in EventIds |-> NoDoc]
    /\ upRoster = [m \in MatchIds |-> NoDoc]
    /\ upCounts = [m \in MatchIds |-> NoDoc]
    /\ upChanges = 0
    /\ run = [r \in Inv |-> IdleRun]

NextDash ==
    \/ RunScript
    \/ DomContentLoaded
    \/ ClickManage
    \/ ClickReset
    \/ ResetResponse
    \/ StatsResponse
    \/ PlayersResponse
    \/ Tick
SpecDash == InitDash /\ [][NextDash]_vars

----------------------------------------------------------------------------
(* The leaderboard of the dashboard: the interval, the refresh button, the  *)
(* sort select and the answers to the stats requests                         *)

\* the calls of startAutoRefresh and stopAutoRefresh made after init
MaxTimerCalls == 2

\* lines 376-388: the button is disabled until its own request is settled
RefreshDisabled(d) == \E q \in d.inflight : q.by = "refresh"

\* lines 376-388: handleManualRefresh
handleManualRefresh(d) == Issue(d, "stats", "refresh", d.clicks)

\* lines 368-371: handleSortChange
handleSortChange(d) == Issue(d, "stats", "sort", d.clicks)

\* the user clicks Refresh
ClickRefresh ==
    /\ dash.inited
    /\ dash.clicks < MaxClicks
    /\ ~RefreshDisabled(dash)
    /\ dash' = handleManualRefresh([dash EXCEPT !.clicks = @ + 1])
    /\ UNCHANGED <<store, upDiscovery, upRoster, upCounts, upChanges, run, stats>>

\* the user picks another sort key
ChangeSort ==
    /\ dash.inited
    /\ dash.clicks < MaxClicks
    /\ dash' = handleSortChange([dash EXCEPT !.clicks = @ + 1])
    /\ UNCHANGED <<store, upDiscovery, upRoster, upCounts, upChanges, run, stats>>

\* startAutoRefresh, a global function of the page, is called again
StartCall ==
    /\ dash.script = "run"
    /\ dash.timerCalls < MaxTimerCalls
    /\ dash' = startAutoRefresh([dash EXCEPT !.timerCalls = @ + 1])
    /\ UNCHANGED <<store, upDiscovery, upRoster, upCounts, upChanges, run, stats>>

\* lines 734-736: beforeunload (the page may stay), or a call from outside
StopCall ==
    /\ dash.script = "run"
    /\ dash.timerCalls < MaxTimerCalls
    /\ dash' = stopAutoRefresh([dash EXCEPT !.timerCalls = @ + 1])
    /\ UNCHANGED <<store, upDiscovery, upRoster, upCounts, upChanges, run, stats>>

NextRefresh ==
    \/ RunScript
    \/ DomContentLoaded
    \/ ClickRefresh
    \/ ChangeSort
    \/ StartCall
    \/ StopCall
    \/ Tick
    \/ StatsResponse
    \/ PlayersResponse
SpecRefresh == InitDash /\ [][NextRefresh]_vars

----------------------------------------------------------------------------
(* One invocation over a table that holds records of two callers, with a    *)
(* request body that may name a caller                                       *)

\* a record of Ann in m1 as an earlier run of caller u stored it for event e
ScopeRecord(u, e) ==
    [StoredRecord("m1", "Ann", Some(90), Some(10)) EXCEPT !.user_id = u,
                                                         !.event_name = e]

\* the request has been read; snap is the table as the request found it
InitScope ==
    /\ stats = IdleReader
    /\ dash = DashUnloaded
    /\ store = <<ScopeRecord("u1", "E1"), ScopeRecord("u2", "E1")>>
    /\ upDiscovery = [t \in EventIds |-> Api2(<<Section(<<Seg(Some("m1"))>>)>>)]
    /\ upRoster = [m \in MatchIds |-> NoDoc]
    /\ upCounts = [m \in MatchIds |-> NoDoc]
    /\ upChanges = 0
    /\ \E u \in Users, name \in EventNames \ {""},
          b \in {None} \cup {Some(v) : v \in Users} :
          run = [r \in Inv |->
                   IF r = 1
                   THEN [Accept(IdleRun, UrlPlain, name, Some(u)) EXCEPT
                            !.body_user_id = b,
                            !.snap = <<ScopeRecord("u1", "E1"), ScopeRecord("u2", "E1")>>]
                   ELSE IdleRun]

NextScope == Resume(1)
SpecScope == InitScope /\ [][NextScope]_vars

----------------------------------------------------------------------------
(* Two invocations of the same caller with the same request, against an     *)
(* upstream that serves each page as it served it first                      *)

InitPair ==
    /\ stats = IdleReader
    /\ dash = DashUnloaded
    /\ store = <<>>
    /\ \E d \in TwiceDocs : upDiscovery = [t \in EventIds |-> d]
    /\ upRoster = [m \in MatchIds |-> NoDoc]
    /\ upCounts = [m \in MatchIds |-> NoDoc]
    /\ upChanges = 0
    /\ \E u \in Users, name \in EventNames \ {""} :
          run = [r \in Inv |-> Accept(IdleRun, UrlPlain, name, Some(u))]

NextPair == \E r \in Inv : Resume(r)
SpecPair == InitPair /\ [][NextPair]_vars

----------------------------------------------------------------------------
(* Properties *)

\* the run has ended / has ended with the summary
Done(r) == run[r].pc = "done"
Summarised(r) == Done(r) /\ run[r].response.body.success

\* the positions in the log of the calls of one kind for the match at pos
CallsAt(rn, kind, pos) ==
    {j \in 1..Len(rn.log) : rn.log[j].call = kind /\ rn.log[j].pos = pos}

FailedAt(rn) == {k \in 1..Len(rn.outcomes) : ~rn.outcomes[k].ok}
OkAt(rn) == {k \in 1..Len(rn.outcomes) : rn.outcomes[k].ok}

InLoop(r) == run[r].pc \in {"roster", "counts", "upsert", "delay"}

\* C1: whatever matches fail, each discovered match is attempted exactly once
\* (one roster request per position of the list, for that position's match),
\* the loop stays on a position of the list, and a run that discovered matches
\* ends with the summary, never with an error response.
C1_EveryMatchAttemptedOnce ==
    \A r \in Inv :
        /\ InLoop(r) =>
              /\ run[r].idx \in 1..Len(run[r].matchIds)
              /\ \A k \in 1..Len(run[r].matchIds) :
                    Cardinality(CallsAt(run[r], "roster", k))
                        = (IF k < run[r].idx \/ (k = run[r].idx /\ run[r].pc # "roster")
                           THEN 1 ELSE 0)
        /\ (Done(r) /\ Len(run[r].matchIds) > 0) =>
              /\ run[r].response.status = 200
              /\ run[r].response.body.success
              /\ run[r].response.body.total_matches = Len(run[r].matchIds)
              /\ Len(run[r].outcomes) = Len(run[r].matchIds)
              /\ \A k \in 1..Len(run[r].matchIds) :
                    /\ Cardinality(CallsAt(run[r], "roster", k)) = 1
                    /\ \A j \in CallsAt(run[r], "roster", k) :
                          run[r].log[j].match = run[r].matchIds[k]
                    /\ run[r].outcomes[k].match = run[r].matchIds[k]

\* a run over three matches in which the first two failed, at different stages
C1_Witness ==
    /\ Summarised(1)
    /\ Len(run[1].matchIds) = 3
    /\ FailedAt(run[1]) = {1, 2}
    /\ run[1].outcomes[1].stage # run[1].outcomes[2].stage

\* the failure of a match that is a non-success HTTP outcome of its roster fetch
RosterHttpFailure(rn, k) ==
    /\ ~rn.outcomes[k].ok
    /\ rn.outcomes[k].stage = "roster"
    /\ \A j \in CallsAt(rn, "roster", k) : ~rn.log[j].doc.ok

HasRow(tbl, key) == \E j \in 1..Len(tbl) : KeyOf(tbl[j]) = key

\* C2: when the only failures of a run are roster fetches answered with a
\* non-success HTTP status, the summary counts the failing matches as failed
\* and the others as successful, and the table holds a row for every player of
\* every match that did not fail.
C2_RosterHttpFailuresCounted ==
    \A r \in Inv :
        (/\ Summarised(r)
         /\ \A k \in FailedAt(run[r]) : RosterHttpFailure(run[r], k)) =>
            /\ run[r].response.body.failed = Cardinality(FailedAt(run[r]))
            /\ run[r].response.body.successful = Cardinality(OkAt(run[r]))
            /\ Cardinality(FailedAt(run[r])) + Cardinality(OkAt(run[r]))
                   = Len(run[r].matchIds)
            /\ \A k \in OkAt(run[r]) :
                  \A p \in Range(run[r].outcomes[k].roster) :
                      HasRow(store, <<run[r].user, run[r].event_name,
                                      run[r].matchIds[k], p.name>>)

\* three matches, only the second fails, on its roster fetch: 2 successful, 1
\* failed, rows of the first and the third match stored
C2_Witness ==
    /\ Summarised(1)
    /\ Len(run[1].matchIds) = 3
    /\ FailedAt(run[1]) = {2}
    /\ RosterHttpFailure(run[1], 2)
    /\ run[1].response.body.successful = 2
    /\ run[1].response.body.failed = 1
    /\ \E j \in 1..Len(store) : store[j].match_id = run[1].matchIds[1]
    /\ \E j \in 1..Len(store) : store[j].match_id = run[1].matchIds[3]

\* no two rows of the table share the key of the unique index
UniqueKeys(tbl) ==
    \A i, j \in 1..Len(tbl) : KeyOf(tbl[i]) = KeyOf(tbl[j]) => i = j

\* the re-sent request found the upstream as the earlier run did, and the
\* database refused the same upserts (if any) in both runs
SameConditions(rn) ==
    /\ rn.reruns >= 1
    /\ upChanges = rn.changesAtPrevStart
    /\ rn.outcomes = rn.prevOutcomes

\* C3: when the same request is run again against an unchanged upstream, the
\* table after the second run is the table after the first: the same rows with
\* the same values, none added, removed, changed or duplicated.
C3_SecondRunChangesNothing ==
    \A r \in Inv :
        (Summarised(r) /\ SameConditions(run[r])) =>
            /\ store = run[r].snap
            /\ UniqueKeys(store)

\* a second run over two matches that wrote rows for both of them again
C3_Witness ==
    /\ Summarised(1)
    /\ SameConditions(run[1])
    /\ Cardinality({store[j].match_id : j \in 1..Len(store)}) = 2
    /\ Len(store) >= 3
    /\ Cardinality(CallsAt(run[1], "upsert", 1)) >= 1
    /\ Cardinality(CallsAt(run[1], "upsert", 2)) >= 1

\* C4: in every reachable state of the table, however the upserts of two
\* invocations interleave, at most one row exists per key
\* (user_id, event_name, match_id, name).
C4_OneRowPerKey ==
    \A i, j \in 1..Len(store) :
        (/\ store[i].user_id = store[j].user_id
         /\ store[i].event_name = store[j].event_name
         /\ store[i].match_id = store[j].match_id
         /\ store[i].name = store[j].name) => i = j

\* both invocations, for the same caller, have upserted the same player of the
\* same match, each in a match that succeeded
C4_Witness ==
    /\ Summarised(1) /\ Summarised(2)
    /\ run[1].user = run[2].user
    /\ run[1].successful >= 1 /\ run[2].successful >= 1
    /\ \E a \in 1..Len(run[1].log), b \in 1..Len(run[2].log) :
          /\ run[1].log[a].call = "upsert" /\ run[2].log[b].call = "upsert"
          /\ run[1].log[a].match = run[2].log[b].match
          /\ run[1].log[a].name = run[2].log[b].name
          /\ HasRow(store, <<run[1].user, run[1].event_name, run[1].log[a].match,
                             run[1].log[a].name>>)

\* the step is an upsert of invocation r that the database accepted
UpsertAccepted(r) ==
    /\ run[r].pc = "upsert"
    /\ Len(run'[r].log) = Len(run[r].log) + 1
    /\ run'[r].failed = run[r].failed

\* the columns the pipeline writes
WrittenColumns == DOMAIN CurrentRecord([IdleRun EXCEPT
    !.matchIds = <<"m1">>, !.idx = 1, !.players = <<AnnV1>>, !.pi = 1])

\* C5: an accepted upsert leaves, under the key of the built record, exactly
\* one row, equal to the built record in every written column (nulls and zeros
\* included): nothing of an earlier row of that key survives; a key that was
\* absent gets one new row; the rows of other keys are untouched.
C5_UpsertOverwritesEveryField ==
    [][\A r \in Inv :
          UpsertAccepted(r) =>
             LET rec == CurrentRecord(run[r])
                 at == RowsAt(store', KeyOf(rec))
             IN  /\ Cardinality(at) = 1
                 /\ \A j \in at : \A c \in WrittenColumns : store'[j][c] = rec[c]
                 /\ Len(store') = (IF RowsAt(store, KeyOf(rec)) = {}
                                   THEN Len(store) + 1 ELSE Len(store))
                 /\ \A j \in 1..Len(store) :
                       KeyOf(store[j]) # KeyOf(rec) => store'[j] = store[j]]_vars

\* after the upstream published a corrected roster, the second run has
\* overwritten Ann's row of match m1: her average and card link, set by the
\* first run, are now null and her legs won are 0
C5_Witness ==
    /\ run[1].reruns >= 1
    /\ upChanges >= 1
    /\ \E j \in 1..Len(store), k \in 1..Len(run[1].snap) :
          /\ KeyOf(store[j]) = KeyOf(run[1].snap[k])
          /\ run[1].snap[k].average # None
          /\ run[1].snap[k].card_link # None
          /\ store[j].average = None
          /\ store[j].card_link = None
          /\ store[j].legs_won = Some(0)

\* the retrieval answered by doc cannot be used: a non-success status, no
\* embedded state block, or a block that does not parse
Unusable(doc) == ~doc.ok \/ ~doc.marker \/ ~doc.json

UpsertCallsAt(rn, pos) == CallsAt(rn, "upsert", pos)

\* C6: when the roster or the distribution retrieval of a match is unusable,
\* the match is counted as failed and the run issues no upsert for it, so no
\* row of any of its players is written or changed by that attempt.
C6_FailedRetrievalFailsWholeMatch ==
    \A r \in Inv :
        /\ \A j \in 1..Len(run[r].log) :
              (run[r].log[j].call \in {"roster", "counts"}
                   /\ Unusable(run[r].log[j].doc)) =>
                 LET k == run[r].log[j].pos
                 IN  /\ UpsertCallsAt(run[r], k) = {}
                     /\ k \in FailedAt(run[r])
                     /\ run[r].outcomes[k].stage = run[r].log[j].call
        /\ run[r].failed = Cardinality(FailedAt(run[r]))
        /\ Len(run[r].errors) = run[r].failed

\* a match whose roster was read (two players) and whose distribution page
\* has no state block: failed, nothing written for it
C6_Witness ==
    /\ Summarised(1)
    /\ \E k \in FailedAt(run[1]) :
          /\ run[1].outcomes[k].stage = "counts"
          /\ Len(run[1].outcomes[k].roster) = 2
          /\ \E j \in CallsAt(run[1], "counts", k) :
                run[1].log[j].doc.ok /\ ~run[1].log[j].doc.marker
          /\ UpsertCallsAt(run[1], k) = {}
    /\ run[1].failed = 1
    /\ store = <<>>

\* the matches that ended on a refused upsert
UpsertFailedAt(rn) == {k \in FailedAt(rn) : rn.outcomes[k].stage = "upsert"}

\* the upsert calls of the match at pos, in the order issued
UpsertNamesAt(rn, pos) ==
    LET F[j \in 0..Len(rn.log)] ==
            IF j = 0 THEN <<>>
            ELSE IF rn.log[j].call = "upsert" /\ rn.log[j].pos = pos
                 THEN Append(F[j - 1], rn.log[j].name)
                 ELSE F[j - 1]
    IN  F[Len(rn.log)]

\* C7 as stated: a refused upsert is confined to its record, the remaining
\* players of the same match are still upserted and the remaining matches are
\* still processed.
C7_AsStated ==
    \A r \in Inv :
        Summarised(r) =>
            \A k \in UpsertFailedAt(run[r]) :
                /\ Len(UpsertNamesAt(run[r], k)) = Len(run[r].outcomes[k].roster)
                /\ \A n \in (k + 1)..Len(run[r].matchIds) :
                      CallsAt(run[r], "roster", n) # {}

\* C7 amended: a refused upsert ends its match: the players before it in the
\* roster have been upserted, in roster order, and their rows stay; the refused
\* player is the last one tried; the players after it are not tried; the match
\* is counted as failed; and the remaining matches are still processed.
C7_UpsertFailureEndsMatchOnly ==
    \A r \in Inv :
        \A k \in UpsertFailedAt(run[r]) :
            LET o == run[r].outcomes[k]
                tried == UpsertNamesAt(run[r], k)
            IN  /\ o.at \in 1..Len(o.roster)
                /\ Len(tried) = o.at
                /\ \A j \in 1..o.at : tried[j] = o.roster[j].name
                /\ \A j \in 1..(o.at - 1) :
                      HasRow(store, <<run[r].user, run[r].event_name, o.match,
                                      o.roster[j].name>>)
                /\ run[r].failed >= 1
                /\ run[r].idx >= k
                /\ Done(r) =>
                      /\ run[r].response.body.success
                      /\ \A n \in (k + 1)..Len(run[r].matchIds) :
                            CallsAt(run[r], "roster", n) # {}

\* the first of three matches: Ann upserted, Bob refused; the second and third
\* match were still processed
C7_Witness ==
    /\ Summarised(1)
    /\ Len(run[1].matchIds) = 3
    /\ 1 \in UpsertFailedAt(run[1])
    /\ run[1].outcomes[1].at = 2
    /\ Len(store) >= 2
    /\ run[1].successful = 2

\* the discovery response carries no match identifier: no sections, no
\* segments, or no segment with a match_id
CarriesNoMatchId(doc) ==
    \/ ~doc.hasSections
    \/ \A sec \in Range(doc.sections) :
          \/ ~sec.hasSegments
          \/ \A seg \in Range(sec.segments) : seg.match_id = None

\* C8: when discovery yields no match identifier, the run ends with the
\* empty-event error and has issued no roster fetch, no distribution fetch and
\* no upsert: the discovery request is its only call.
C8_EmptyEventStopsBeforeAnyFetch ==
    \A r \in Inv :
        \A j \in 1..Len(run[r].log) :
            (/\ run[r].log[j].call = "discovery"
             /\ run[r].log[j].doc.ok
             /\ CarriesNoMatchId(run[r].log[j].doc)) =>
                /\ Done(r)
                /\ run[r].response = ErrorResponse(400, "No matches found in event")
                /\ Len(run[r].log) = 1
                /\ store = <<>>

\* discovery answered with a section whose only segment has no match_id
C8_Witness ==
    /\ Done(1)
    /\ Len(run[1].log) = 1
    /\ run[1].log[1].doc.ok
    /\ run[1].log[1].doc.hasSections
    /\ Len(run[1].log[1].doc.sections) = 1
    /\ run[1].log[1].doc.sections[1].hasSegments
    /\ Len(run[1].log[1].doc.sections[1].segments) = 1
    /\ run[1].response.status = 400

\* the event reference holds "event/" followed by at least one character
\* other than "/"
HasEventToken(url) ==
    \E p \in 1..Len(url) :
        /\ p + 6 <= Len(url)
        /\ <<url[p], url[p + 1], url[p + 2], url[p + 3], url[p + 4], url[p + 5]>>
               = <<"e", "v", "e", "n", "t", "/">>
        /\ url[p + 6] # "/"

\* C9: a request whose event reference lacks the pattern event/<token>, or
\* whose caller is not authenticated, ends with an error response; the run has
\* issued no discovery request, no fetch and no upsert, and the table is
\* unchanged.
C9_FatalErrorsBeforeAnyCall ==
    \A r \in Inv :
        (/\ run[r].pc \notin {"idle", "auth"}
         /\ (run[r].auth = None \/ ~HasEventToken(run[r].event_url))) =>
            /\ Done(r)
            /\ ~run[r].response.body.success
            /\ run[r].response.status \in {400, 401}
            /\ run[r].log = <<>>
            /\ store = <<>>

\* an authenticated caller whose reference is "event//7": refused as invalid
C9_Witness ==
    /\ Done(1)
    /\ run[1].auth # None
    /\ run[1].event_name # ""
    /\ run[1].event_url = UrlEmptyToken
    /\ run[1].response = ErrorResponse(400, "Invalid event URL format")
    /\ run[1].log = <<>>

\* the failed matches of a run, in processing order
FailedOutcomes(rn) == SelectSeq(rn.outcomes, LAMBDA o : ~o.ok)

\* the errors list of the summary; <<>> when the field is absent
SummaryErrors(r) ==
    IF "errors" \in DOMAIN run[r].response.body
    THEN run[r].response.body.errors ELSE <<>>

C10_WitnessNoErrors ==
    /\ Summarised(1)
    /\ run[1].successful = 3
    /\ "errors" \notin DOMAIN run[1].response.body

----------------------------------------------------------------------------
(* Properties of the built record (SpecBuild) *)

\* the players of the roster page of match m, and the index of name n in them
RosterOf(m) == upRoster[m].props.players
IndexOf(m, n) == CHOOSE i \in DOMAIN RosterOf(m) : RosterOf(m)[i].name = n

\* the entry of the player of a stored row in a secondary array of its match
\* ({} when the array has none at that index)
RawEntry(row, field) ==
    LET arr == upCounts[row.match_id].props[field]
        i == IndexOf(row.match_id, row.name)
    IN  IF i \in DOMAIN arr THEN {arr[i]} ELSE {}

\* the value of a distribution map at a key, 0 when the key is absent
ValueAt(d, k) == IF k \in DOMAIN d THEN d[k] ELSE 0

\* C11: every stored record whose player has a distribution map carries
\* count_180s = the value at 180, count_140_plus = the values at 140, 141, 160
\* and 171 plus count_180s, and count_100_plus = the value at 100 plus
\* count_140_plus, a missing key counting 0.
C11_TalliesFromDistribution ==
    \A j \in 1..Len(store) :
        \A d \in RawEntry(store[j], "distribution") :
            /\ store[j].count_180s = ValueAt(d, "180")
            /\ store[j].count_140_plus =
                   ValueAt(d, "140") + ValueAt(d, "141") + ValueAt(d, "160")
                       + ValueAt(d, "171") + store[j].count_180s
            /\ store[j].count_100_plus = ValueAt(d, "100") + store[j].count_140_plus

\* the map {100: 3, 140: 1, 180: 2} stored as 2, 3 and 6
C11_Witness ==
    \E j \in 1..Len(store) :
        /\ RawEntry(store[j], "distribution") = {DistExample}
        /\ store[j].count_180s = 2
        /\ store[j].count_140_plus = 3
        /\ store[j].count_100_plus = 6

\* the distribution map the record of a stored row was built from: the entry
\* at the player's index, the empty map when there is none
DistOfRow(row) ==
    LET e == RawEntry(row, "distribution")
    IN  IF e = {} THEN EmptyDist ELSE CHOOSE d \in e : TRUE

\* the numeric value of a score key
KeyNumber(k) ==
    CHOOSE n \in 0..180 : ToString(n) = k

\* C12 as stated: highest_score is the largest numeric key of the player's
\* distribution map, and 0 when the map is empty or the entry is missing.
C12_AsStated ==
    \A j \in 1..Len(store) :
        LET d == DistOfRow(store[j])
        IN  IF DOMAIN d = {}
            THEN store[j].highest_score = Some(0)
            ELSE /\ \E k \in DOMAIN d : store[j].highest_score = Some(KeyNumber(k))
                 /\ \A k \in DOMAIN d : \A h \in store[j].highest_score :
                       KeyNumber(k) <= h

\* the part of C12 on maps that hold a key: highest_score is the largest one
C12_HighestKeyOfNonEmptyMap ==
    \A j \in 1..Len(store) :
        LET d == DistOfRow(store[j])
        IN  DOMAIN d # {} =>
               /\ \E k \in DOMAIN d : store[j].highest_score = Some(KeyNumber(k))
               /\ \A k \in DOMAIN d : \A h \in store[j].highest_score :
                     KeyNumber(k) <= h

\* a stored record built from an empty map: its highest_score is null
C12_EmptyMapStored ==
    \E j \in 1..Len(store) :
        /\ DOMAIN DistOfRow(store[j]) = {}
        /\ store[j].highest_score = None

\* the stored row of a player of match m, as a set ({} when there is none)
RowOf(r, m, n) ==
    {store[j] : j \in RowsAt(store, <<run[r].user, run[r].event_name, m, n>>)}

\* C13: a player without an entry in distribution, first_nine or checkout_stats
\* does not fail the match: with both pages usable a match fails only on an
\* upsert the database refused, a run without failures has stored a record for
\* every player of the roster, and the record of a player without an entry
\* carries zero tallies, a null first-nine average, and null checkout fields
\* with zero opportunities and hits.
C13_MissingEntriesDefaulted ==
    /\ \A k \in FailedAt(run[1]) : run[1].outcomes[k].stage = "upsert"
    /\ (Summarised(1) /\ run[1].failed = 0) =>
           \A i \in DOMAIN RosterOf("m1") : RowOf(1, "m1", RosterOf("m1")[i].name) # {}
    /\ \A j \in 1..Len(store) :
           /\ RawEntry(store[j], "distribution") = {} =>
                  /\ store[j].count_180s = 0
                  /\ store[j].count_140_plus = 0
                  /\ store[j].count_100_plus = 0
           /\ RawEntry(store[j], "first_nine") = {} =>
                  store[j].first_nine_avg = None
           /\ RawEntry(store[j], "checkout_stats") = {} =>
                  /\ store[j].checkout_efficiency = None
                  /\ store[j].checkout_opportunities = 0
                  /\ store[j].checkouts_hit = 0
                  /\ store[j].highest_checkout = None
                  /\ store[j].avg_finish = None

\* a roster of two over arrays of one entry each: the match succeeded and Bob,
\* who has no entry in any of the three, has his record
C13_Witness ==
    /\ Summarised(1)
    /\ run[1].successful = 1
    /\ Len(RosterOf("m1")) = 2
    /\ Len(upCounts["m1"].props.distribution) = 1
    /\ Len(upCounts["m1"].props.first_nine) = 1
    /\ Len(upCounts["m1"].props.checkout_stats) = 1
    /\ \E row \in RowOf(1, "m1", "Bob") :
          /\ RawEntry(row, "distribution") = {}
          /\ RawEntry(row, "first_nine") = {}
          /\ RawEntry(row, "checkout_stats") = {}
          /\ row.count_100_plus = 0
          /\ row.checkout_opportunities = 0

\* C14 as stated: first_nine_avg is first_nine[i].average whenever the player
\* has one, 0 included, and null exactly when it is absent.
C14_AsStated ==
    \A j \in 1..Len(store) :
        LET e == RawEntry(store[j], "first_nine")
        IN  /\ \A f \in e : store[j].first_nine_avg = f.average
            /\ e = {} => store[j].first_nine_avg = None

\* the part of C14 on averages other than 0: stored as they are, and a missing
\* entry or a missing average is stored as null
C14_NonZeroAverageKept ==
    \A j \in 1..Len(store) :
        LET e == RawEntry(store[j], "first_nine")
        IN  /\ \A f \in e : f.average # Some(0) => store[j].first_nine_avg = f.average
            /\ e = {} => store[j].first_nine_avg = None

\* a stored record of a player whose first-nine average is 0: null
C14_ZeroAverageStored ==
    \E j \in 1..Len(store) :
        /\ RawEntry(store[j], "first_nine") = {FirstNine(Some(0))}
        /\ store[j].first_nine_avg = None

\* C15 as stated: when the player has a checkout_stats entry, the five
\* checkout fields of the record are the values of the entry, unchanged, 0 and
\* the empty label included; without an entry they are null, with zero
\* opportunities and hits.
C15_AsStated ==
    \A j \in 1..Len(store) :
        LET e == RawEntry(store[j], "checkout_stats")
            row == store[j]
        IN  /\ \A c \in e :
                  /\ c.efficiency # None => row.checkout_efficiency = c.efficiency
                  /\ c.opportunities # None =>
                         Some(row.checkout_opportunities) = c.opportunities
                  /\ c.hit # None => Some(row.checkouts_hit) = c.hit
                  /\ c.highest # None => row.highest_checkout = c.highest
                  /\ c.average # None => row.avg_finish = c.average
            /\ e = {} =>
                  /\ row.checkout_efficiency = None
                  /\ row.checkout_opportunities = 0
                  /\ row.checkouts_hit = 0
                  /\ row.highest_checkout = None
                  /\ row.avg_finish = None

\* the part of C15 on values other than 0 and the empty label
C15_TruthyValuesKept ==
    \A j \in 1..Len(store) :
        LET row == store[j]
        IN  \A c \in RawEntry(row, "checkout_stats") :
               /\ c.efficiency \notin {None, Some("")} =>
                      row.checkout_efficiency = c.efficiency
               /\ c.opportunities # None =>
                      Some(row.checkout_opportunities) = c.opportunities
               /\ c.hit # None => Some(row.checkouts_hit) = c.hit
               /\ c.highest \notin {None, Some(0)} => row.highest_checkout = c.highest
               /\ c.average \notin {None, Some(0)} => row.avg_finish = c.average

----------------------------------------------------------------------------
(* Properties of the order of processing *)

\* the places <<section, segment>> of a discovery response that carry a match id
IdPlaces(doc) ==
    UNION {{<<sc, sg>> : sg \in {g \in DOMAIN doc.sections[sc].segments :
                                    doc.sections[sc].segments[g].match_id # None}} :
           sc \in {c \in DOMAIN doc.sections : doc.sections[c].hasSegments}}

\* place p is at or before place q in source order
AtOrBefore(p, q) == p[1] < q[1] \/ (p[1] = q[1] /\ p[2] <= q[2])

\* the roster calls of a run, in the order issued
RosterCalls(rn) == SelectSeq(rn.log, LAMBDA c : c.call = "roster")

\* C16: the list of matches of a run holds exactly the match ids the discovery
\* response carries, one entry per carrying segment (a repeated id stays
\* repeated), in section order and then segment order; and the matches are
\* attempted in the order of that list: the k-th roster request of the run is
\* for the k-th entry, and a finished run has attempted every entry.
C16_SourceOrderKept ==
    \A r \in Inv :
        (run[r].log # <<>> /\ run[r].log[1].doc.ok) =>
            LET doc == run[r].log[1].doc
                places == IdPlaces(doc)
                calls == RosterCalls(run[r])
            IN  /\ places # {} =>
                      /\ Len(run[r].matchIds) = Cardinality(places)
                      /\ \A p \in places :
                            Some(run[r].matchIds[Cardinality(
                                    {q \in places : AtOrBefore(q, p)})])
                                = doc.sections[p[1]].segments[p[2]].match_id
                /\ Len(calls) <= Len(run[r].matchIds)
                /\ \A k \in 1..Len(calls) :
                      calls[k].pos = k /\ calls[k].match = run[r].matchIds[k]
                /\ Done(r) => Len(calls) = Len(run[r].matchIds)

\* a response whose first section carries m2, whose second has no segments and
\* whose third carries a segment without id and then m1: m2 was attempted
\* first, then m1
C16_Witness ==
    /\ Summarised(1)
    /\ Len(run[1].log[1].doc.sections) = 3
    /\ run[1].matchIds = <<"m2", "m1">>
    /\ Len(RosterCalls(run[1])) = 2
    /\ RosterCalls(run[1])[1].match = "m2"
    /\ RosterCalls(run[1])[2].match = "m1"

\* C17 as stated: before the first request of every match but the first, the
\* pacing delay of the match before it has elapsed, whether that match
\* succeeded or failed.
C17_AsStated ==
    \A r \in Inv :
        \A j \in 1..Len(run[r].log) :
            (run[r].log[j].call = "roster" /\ run[r].log[j].pos > 1) =>
                \E i \in 1..(j - 1) :
                    /\ run[r].log[i].call = "delay"
                    /\ run[r].log[i].pos = run[r].log[j].pos - 1

\* what the handler does: the delay elapses after a match exactly when the
\* match succeeded
C17_DelayAfterSuccessOnly ==
    \A r \in Inv :
        \A k \in 1..Len(run[r].outcomes) :
            (k < run[r].idx \/ Done(r)) =>
                (CallsAt(run[r], "delay", k) # {}) = run[r].outcomes[k].ok

\* C18: within one invocation the matches are processed one after the other:
\* the calls of the run are issued in the order of the list, every call is for
\* the match the loop is at or for one before it, and when a call for the next
\* match is issued the match before it has been recorded, as failed or as
\* successful with one completed upsert per player of its roster.
C18_MatchesStrictlySequential ==
    \A r \in Inv :
        LET lg == run[r].log
        IN  /\ \A i, j \in 1..Len(lg) : i < j => lg[i].pos <= lg[j].pos
            /\ \A j \in 1..Len(lg) :
                  /\ lg[j].pos <= Len(run[r].outcomes) + 1
                  /\ lg[j].pos > Len(run[r].outcomes) => lg[j].pos = run[r].idx
            /\ \A k \in 1..Len(run[r].outcomes) :
                  run[r].outcomes[k].ok =>
                      Cardinality(UpsertCallsAt(run[r], k))
                          = Len(run[r].outcomes[k].roster)

\* three matches: the first stored both of its players, the second failed, the
\* third was then fetched
C18_Witness ==
    /\ Summarised(1)
    /\ Len(run[1].matchIds) = 3
    /\ run[1].outcomes[1].ok
    /\ Cardinality(UpsertCallsAt(run[1], 1)) = 2
    /\ ~run[1].outcomes[2].ok
    /\ CallsAt(run[1], "counts", 3) # {}

----------------------------------------------------------------------------
(* Properties of a run that is cut off (SpecCut) *)

\* the records of match m for a caller and an event name, built from the
\* pages the upstream serves for m; none when either page cannot be used or
\* has not been asked for
RecordsOfMatch(userId, eventName, m) ==
    IF /\ upRoster[m] \in DataPages({upRoster[m]})
       /\ upCounts[m] \in DataPages({upCounts[m]})
    THEN LET ps == PlayersOf(upRoster[m])
             cs == upCounts[m].props
         IN  {BuildRecord(userId, eventName, m, ps[i],
                          FirstNineAtIndex(cs.first_nine, i),
                          CheckoutAtIndex(cs.checkout_stats, i),
                          DistAtIndex(cs.distribution, i)) : i \in DOMAIN ps}
    ELSE {}

\* the records one uninterrupted run of the request of invocation r writes
\* against the present upstream when the database refuses nothing
CompleteRunRecords(r) ==
    LET doc == upDiscovery[CHOOSE t \in EventIdMatch(run[r].event_url) : TRUE]
    IN  UNION {RecordsOfMatch(CHOOSE u \in run[r].auth : TRUE, run[r].event_name, m) :
                  m \in Range(CollectMatchIds(doc))}

\* C19: wherever runs are cut off, the table holds at most one record per
\* key and every record in it is one a complete run writes for that key
\* against the same upstream; and a run that completes, after any number of
\* cut-off runs of the same request and with no upsert refused, leaves the
\* table with exactly the records of one uninterrupted run.
C19_CutOffRunIsResumable ==
    /\ UniqueKeys(store)
    /\ Range(store) \subseteq CompleteRunRecords(1)
    /\ (Summarised(1) /\ UpsertFailedAt(run[1]) = {}) =>
           Range(store) = CompleteRunRecords(1)

\* the first run was cut off between the upserts of Ann and Bob of the first
\* match; the request sent again completed over two matches without failure
C19_Witness ==
    /\ Summarised(1)
    /\ run[1].reruns >= 1
    /\ Len(run[1].snap) = 1
    /\ run[1].prevOutcomes = <<>>
    /\ Len(run[1].matchIds) = 2
    /\ run[1].failed = 0
    /\ Len(store) >= 3

----------------------------------------------------------------------------
(* Properties of the summary of concurrent invocations (SpecConc) *)

\* the players of the finished match at pos whose upsert the database
\* accepted, in order: the whole roster of a successful match, the players
\* before the refused one of a match that ended on a refused upsert, none of a
\* match that failed on a retrieval
AcceptedAt(rn, pos) ==
    LET o == rn.outcomes[pos]
        names == [i \in 1..Len(o.roster) |-> o.roster[i].name]
    IN  IF o.ok THEN names
        ELSE IF o.stage = "upsert" THEN SubSeq(names, 1, o.at - 1)
        ELSE <<>>

\* the 180s of player i of the match at pos, from the distribution page that
\* was served to this run for it
Served180s(rn, pos, i) ==
    LET j == CHOOSE c \in CallsAt(rn, "counts", pos) : TRUE
        arr == rn.log[j].doc.props.distribution
    IN  IF i \in DOMAIN arr THEN ValueAt(arr[i], "180") ELSE 0

\* what a run has itself stored for a player at the match at pos: whether it
\* stored a record (rosters hold a name once, so 0 or 1), and the 180s of it
OwnTallyAt(rn, pos, name) ==
    LET acc == AcceptedAt(rn, pos)
        at == {i \in 1..Len(acc) : acc[i] = name}
    IN  IF at = {} THEN [match_count |-> 0, count_180s |-> 0]
        ELSE [match_count |-> Cardinality(at),
              count_180s |-> Served180s(rn, pos, CHOOSE i \in at : TRUE)
                                 * Cardinality(at)]

\* what a run has itself stored for a player: the matches, and the 180s
OwnTally(rn, name) ==
    LET F[k \in 0..Len(rn.outcomes)] ==
            IF k = 0 THEN [match_count |-> 0, count_180s |-> 0]
            ELSE LET t == OwnTallyAt(rn, k, name)
                 IN  [match_count |-> F[k - 1].match_count + t.match_count,
                      count_180s |-> F[k - 1].count_180s + t.count_180s]
    IN  F[Len(rn.outcomes)]

\* the players a run has itself stored a record for
OwnPlayers(rn) == UNION {Range(AcceptedAt(rn, k)) : k \in 1..Len(rn.outcomes)}

\* C20: however two invocations interleave or follow each other, the summary
\* each returns is made of its own work only: its players are those it stored
\* a record for, each with the number of its own matches that stored one and
\* the 180s of those records; successful and failed count its own matches;
\* and errors holds one entry per failed match of its own.
C20_SummaryIsLocal ==
    \A r \in Inv :
        Summarised(r) =>
            LET rn == run[r]
                body == rn.response.body
                own == OwnPlayers(rn)
            IN  /\ body.successful + body.failed = Len(rn.outcomes)
                /\ body.successful = Cardinality(OkAt(rn))
                /\ Len(SummaryErrors(r)) = body.failed
                /\ body.total_players = Cardinality(own)
                /\ DOMAIN body.players = own
                /\ \A n \in own : body.players[n] = OwnTally(rn, n)

\* both invocations went through the same match, which holds Ann with two
\* 180s: each reports one match and two 180s for her
C20_Witness ==
    /\ Summarised(1) /\ Summarised(2)
    /\ run[1].matchIds = <<"m1">> /\ run[2].matchIds = <<"m1">>
    /\ \A r \in Inv :
          /\ "Ann" \in DOMAIN run[r].response.body.players
          /\ run[r].response.body.players["Ann"]
                 = [match_count |-> 1, count_180s |-> 2]

----------------------------------------------------------------------------
(* Properties of the summary of one run (Spec) *)

\* the players of the match at pos whose upsert was issued and accepted, in
\* the order issued: every upsert call of the match in the log but the last
\* one of a match that ended on a refused upsert
PersistedNamesAt(rn, pos) ==
    LET tried == UpsertNamesAt(rn, pos)
    IN  IF pos \in UpsertFailedAt(rn) THEN SubSeq(tried, 1, Len(tried) - 1)
        ELSE tried

\* the positions of the matches of a run in which a record of the player was
\* persisted
MatchesTouching(rn, name) ==
    {k \in 1..Len(rn.matchIds) : name \in Range(PersistedNamesAt(rn, k))}

\* the 180s of the records of the player persisted by the run, summed over
\* its matches (a roster holds a name once)
Persisted180s(rn, name) ==
    LET G[S \in SUBSET MatchesTouching(rn, name)] ==
            IF S = {} THEN 0
            ELSE LET k == CHOOSE x \in S : TRUE
                     i == CHOOSE x \in DOMAIN PersistedNamesAt(rn, k) :
                              PersistedNamesAt(rn, k)[x] = name
                 IN  Served180s(rn, k, i) + G[S \ {k}]
    IN  G[MatchesTouching(rn, name)]

\* the names the run persisted a record for
TouchedNames(rn) ==
    UNION {Range(PersistedNamesAt(rn, k)) : k \in 1..Len(rn.matchIds)}

\* C21: in the returned summary total_players is the number of distinct names
\* the run persisted a record for, players lists exactly those names, and for
\* each of them match_count is the number of matches of the run that
\* persisted a record of that player (a match that failed later included) and
\* count_180s the sum of the count_180s of those records.
C21_SummaryTalliesPersistedRecords ==
    Summarised(1) =>
        LET body == run[1].response.body
        IN  /\ body.total_players = Cardinality(TouchedNames(run[1]))
            /\ DOMAIN body.players = TouchedNames(run[1])
            /\ \A n \in TouchedNames(run[1]) :
                  /\ body.players[n].match_count
                         = Cardinality(MatchesTouching(run[1], n))
                  /\ body.players[n].count_180s = Persisted180s(run[1], n)

\* the first match stored Ann and then failed on Bob's upsert; Ann is
\* reported with two matches and four 180s, Bob with one match
C21_Witness ==
    /\ Summarised(1)
    /\ 1 \in UpsertFailedAt(run[1])
    /\ run[1].outcomes[1].at = 2
    /\ run[1].response.body.total_players = 2
    /\ run[1].response.body.players["Ann"] = [match_count |-> 2, count_180s |-> 4]
    /\ run[1].response.body.players["Bob"].match_count = 1

----------------------------------------------------------------------------
(* Ordering of the cumulative tallies (SpecBuild) *)

\* no value of the distribution map of the player of a stored row is negative
\* (a player without a map has none)
NonNegativeCounts(row) ==
    \A d \in RawEntry(row, "distribution") : \A k \in DOMAIN d : d[k] >= 0

\* C29: every stored record built from non-negative distribution values has
\* count_180s <= count_140_plus <= count_100_plus.
C29_TalliesAreCumulative ==
    \A j \in 1..Len(store) :
        NonNegativeCounts(store[j]) =>
            /\ store[j].count_180s <= store[j].count_140_plus
            /\ store[j].count_140_plus <= store[j].count_100_plus

\* a record with 180s, more 140+ than 180s and more 100+ than 140+
C29_Witness ==
    \E j \in 1..Len(store) :
        /\ NonNegativeCounts(store[j])
        /\ 0 < store[j].count_180s
        /\ store[j].count_180s < store[j].count_140_plus
        /\ store[j].count_140_plus < store[j].count_100_plus

----------------------------------------------------------------------------
(* Accounting of the matches of one run (Spec) *)

\* the match at pos went through: the roster page and the distribution page
\* served for it were both usable, one upsert was issued per player of that
\* roster, the database refused none, and the table holds the row of each
WentThrough(r, pos) ==
    LET rn == run[r]
    IN  /\ \E j \in CallsAt(rn, "roster", pos) :
              /\ ~Unusable(rn.log[j].doc)
              /\ Len(UpsertNamesAt(rn, pos)) = Len(PlayersOf(rn.log[j].doc))
              /\ \A i \in DOMAIN PlayersOf(rn.log[j].doc) :
                    /\ UpsertNamesAt(rn, pos)[i] = PlayersOf(rn.log[j].doc)[i].name
                    /\ HasRow(store, <<rn.user, rn.event_name, rn.matchIds[pos],
                                       PlayersOf(rn.log[j].doc)[i].name>>)
        /\ \E j \in CallsAt(rn, "counts", pos) : ~Unusable(rn.log[j].doc)
        /\ pos \notin UpsertFailedAt(rn)

\* C30: in the summary of a run that got past discovery, successful + failed
\* = total_matches = the number of discovered match ids, failed is the
\* number of entries of errors, and the successful matches are matches whose
\* two retrievals both succeeded and whose players were all upserted without
\* a refusal (as many as successful says).
C30_EveryMatchCountedOnce ==
    Summarised(1) =>
        LET body == run[1].response.body
            gone == {k \in 1..Len(run[1].matchIds) : WentThrough(1, k)}
        IN  /\ body.total_matches = Len(CollectMatchIds(run[1].log[1].doc))
            /\ body.successful + body.failed = body.total_matches
            /\ body.failed = Len(SummaryErrors(1))
            /\ OkAt(run[1]) \subseteq gone
            /\ body.successful = Cardinality(gone)

\* three discovered matches: one went through, one failed on a retrieval and
\* one on a refused upsert; 1 successful, 2 failed, 2 errors entries
C30_Witness ==
    /\ Summarised(1)
    /\ run[1].response.body.total_matches = 3
    /\ run[1].response.body.successful = 1
    /\ run[1].response.body.failed = 2
    /\ Len(SummaryErrors(1)) = 2
    /\ \E k \in FailedAt(run[1]) : run[1].outcomes[k].stage = "upsert"
    /\ \E k \in FailedAt(run[1]) : run[1].outcomes[k].stage \in {"roster", "counts"}

----------------------------------------------------------------------------
(* Properties of a failed match over stored data (SpecTwice) *)

\* the first match of a re-sent request has ended in failure and nothing has
\* been called for a later match; snap is the table as the request found it
FirstMatchJustFailed(rn) ==
    /\ rn.reruns >= 1
    /\ Len(rn.outcomes) >= 1
    /\ ~rn.outcomes[1].ok
    /\ \A j \in 1..Len(rn.log) : rn.log[j].pos <= 1

\* C26 as stated: a match that ends in failure leaves every record that was
\* in the table before it was attempted as it was.
C26_AsStated ==
    \A r \in Inv :
        FirstMatchJustFailed(run[r]) =>
            \A k \in 1..Len(run[r].snap) : run[r].snap[k] \in Range(store)

\* what the handler gives: a match that failed on a retrieval has written
\* nothing; a match that failed on player i's upsert has rewritten the records
\* of the players before i and left every other record as it was
C26_OnlyEarlierPlayersRewritten ==
    \A r \in Inv :
        FirstMatchJustFailed(run[r]) =>
            LET o == run[r].outcomes[1]
                done == IF o.stage = "upsert"
                        THEN {o.roster[i].name : i \in 1..(o.at - 1)} ELSE {}
            IN  \A k \in 1..Len(run[r].snap) :
                   \/ run[r].snap[k] \in Range(store)
                   \/ /\ run[r].snap[k].match_id = o.match
                      /\ run[r].snap[k].name \in done

\* the re-sent request rewrote Ann's record from a changed page and then
\* had Bob's upsert refused: the match is failed, Ann's stored record is not
\* the one the request found
C26_FailedMatchRewroteRecord ==
    /\ FirstMatchJustFailed(run[1])
    /\ run[1].outcomes[1].stage = "upsert"
    /\ run[1].outcomes[1].at = 2
    /\ \E k \in 1..Len(run[1].snap) :
          /\ run[1].snap[k].name = "Ann"
          /\ run[1].snap[k] \notin Range(store)

----------------------------------------------------------------------------
(* Properties of concurrent writes to one key (SpecConc) *)

\* the step is one upsert of invocation r: the table after it is the table
\* before it with the row of the record's key, if any, replaced by the whole
\* record r built from the pages it was served, and still one row per key
WholeRecordWrite(r) ==
    /\ run[r].pc = "upsert"
    /\ LET rec == CurrentRecord(run[r])
       IN  /\ Range(store') =
                  {row \in Range(store) : KeyOf(row) # KeyOf(rec)} \cup {rec}
           /\ UniqueKeys(store')

\* C25: when two invocations write overlapping matches, every change of the
\* table is one upsert of one of them that puts its whole record in the place
\* of the row of that key and leaves the other rows alone; so the row of a
\* key is always the record of the last upsert for it, all of its columns
\* from that one run.
C25_LastWriteWins ==
    [][store' # store => \E r \in Inv : WholeRecordWrite(r)]_vars

\* both invocations, for the same caller, stored Ann of m1, the first from
\* the roster page with Bob and the second from the corrected page: the table
\* holds Bob's row and, for Ann, the second's record with its nulls
C25_Witness ==
    /\ Summarised(1) /\ Summarised(2)
    /\ run[1].user = run[2].user
    /\ run[1].successful >= 1 /\ run[2].successful >= 1
    /\ \E j \in CallsAt(run[1], "roster", 1) :
          run[1].log[j].doc = Roster(<<AnnV1, BobV1>>)
    /\ \A j \in CallsAt(run[2], "roster", 1) :
          run[2].log[j].doc = Roster(<<AnnV2>>)
    /\ Len(run[2].matchIds) = 1
    /\ Len(store) = 2
    /\ \E j \in 1..Len(store) :
          /\ store[j].name = "Ann"
          /\ store[j].average = None
          /\ store[j].card_link = None

----------------------------------------------------------------------------
(* Properties of the stats function (SpecRead) *)

\* the sums of average x legs_played and of legs_played over the records of
\* a player, taken record by record along the table
SumProducts(tbl, name) ==
    LET F[k \in 0..Len(tbl)] ==
            IF k = 0 THEN 0
            ELSE IF tbl[k].name = name
                 THEN F[k - 1] + TheValue(tbl[k].average) * TheValue(tbl[k].legs_played)
                 ELSE F[k - 1]
    IN  F[Len(tbl)]
SumLegs(tbl, name) ==
    LET F[k \in 0..Len(tbl)] ==
            IF k = 0 THEN 0
            ELSE IF tbl[k].name = name
                 THEN F[k - 1] + TheValue(tbl[k].legs_played)
                 ELSE F[k - 1]
    IN  F[Len(tbl)]

\* every record of the player has an average and legs, and a leg was played
HasWeightedAverage(tbl, name) ==
    /\ \A j \in RowsOfPlayer(tbl, name) :
          tbl[j].average # None /\ tbl[j].legs_played # None
    /\ RowsOfPlayer(tbl, name) # {}
    /\ SumLegs(tbl, name) > 0

\* the rational w is the quotient of the two sums of the player
IsQuotientOfSums(w, tbl, name) ==
    w.num * SumLegs(tbl, name) = w.den * SumProducts(tbl, name)

\* the function answered one player / the leaderboard with 200
AnsweredPlayer ==
    /\ stats.pc = "done" /\ stats.response.status = 200
    /\ "player" \in DOMAIN stats.response.body
AnsweredLeaderboard ==
    /\ stats.pc = "done" /\ stats.response.status = 200
    /\ "players" \in DOMAIN stats.response.body

\* C22: the weighted average the stats function reports for a player, alone
\* or in the leaderboard, is the sum of average x legs_played over the
\* player's records divided by the sum of their legs_played.
C22_WeightedAverageIsQuotientOfSums ==
    /\ AnsweredPlayer =>
           LET body == stats.response.body
           IN  HasWeightedAverage(store, body.player) =>
                  /\ body.stats.weighted_3da # None
                  /\ IsQuotientOfSums(TheValue(body.stats.weighted_3da), store,
                                      body.player)
    /\ \A i \in DOMAIN stats.players :
           HasWeightedAverage(store, stats.players[i].name) =>
               IsQuotientOfSums(stats.players[i].weighted_3da, store,
                                stats.players[i].name)

\* records (80, 5 legs) and (90, 10 legs) of Ann: 1300 / 15 reported, as 260/3
C22_Witness ==
    /\ AnsweredPlayer
    /\ stats.response.body.player = "Ann"
    /\ Cardinality(RowsOfPlayer(store, "Ann")) = 2
    /\ HasWeightedAverage(store, "Ann")
    /\ SumProducts(store, "Ann") = 1300
    /\ SumLegs(store, "Ann") = 15
    /\ stats.response.body.stats.weighted_3da = Some([num |-> 260, den |-> 3])

\* C23 as stated: the leaderboard carries ranks 1..n, and a player with a
\* smaller rank never has a smaller reported weighted average than a player
\* with a larger rank, players without an average included.
C23_AsStated ==
    AnsweredLeaderboard =>
        LET ps == stats.response.body.players
        IN  /\ \A i \in DOMAIN ps : ps[i].rank = i
            /\ \A i, j \in DOMAIN ps :
                  ps[i].rank < ps[j].rank =>
                      ~RatioLess(ps[i].weighted_3da, ps[j].weighted_3da)

\* what the function gives: ranks 1..n, one per player, descending among the
\* players that have an average
C23_RankedAmongPresent ==
    AnsweredLeaderboard =>
        LET ps == stats.response.body.players
        IN  /\ \A i \in DOMAIN ps : ps[i].rank = i
            /\ {ps[i].name : i \in DOMAIN ps} = {store[j].name : j \in 1..Len(store)}
            /\ Len(ps) = Cardinality({store[j].name : j \in 1..Len(store)})
            /\ \A i, j \in DOMAIN ps :
                  (/\ i < j
                   /\ WeightedAverage(store, ps[i].name) # None
                   /\ WeightedAverage(store, ps[j].name) # None) =>
                      ~RatioLess(ps[i].weighted_3da, ps[j].weighted_3da)

\* a leaderboard whose rank 1 is a player without an average, reported as 0,
\* above a player with an average of 61
C23_NullRankedFirst ==
    /\ AnsweredLeaderboard
    /\ Len(stats.response.body.players) = 2
    /\ stats.allPlayers[1].weighted_3da = None
    /\ stats.response.body.players[1].weighted_3da = Ratio(0, 1)
    /\ stats.response.body.players[2].weighted_3da = Ratio(61, 1)

\* C24: a request to the stats function, for the leaderboard or for one
\* player, found or not, changes no record: every step of the function leaves
\* the table as it is, and every query it sends is a select.
C24_ReadingNeverWrites ==
    [][stats' # stats =>
          /\ store' = store
          /\ \A k \in 1..Len(stats'.queries) : stats'.queries[k].op = "select"]_vars

\* the leaderboard was returned over a table of three records, after the
\* two selects
C24_Witness ==
    /\ AnsweredLeaderboard
    /\ Len(store) = 3
    /\ Len(stats.queries) = 2
    /\ Len(stats.response.body.players) = 2

----------------------------------------------------------------------------
(* Properties of the dashboard (SpecDash) *)

\* the requests a step of the page sent
NewRequests == dash'.inflight \ dash.inflight

\* the step is a click on the reset button whose confirmation was declined,
\* or that showed none
DeclinedResetClick ==
    /\ dash'.clicks = dash.clicks + 1
    /\ dash'.lastClick.target = "reset"
    /\ dash'.lastClick.answer # Some(TRUE)

\* C27: a reset-database request is sent only in the step of a click on the
\* reset button whose confirmation the user accepted, one per click and for
\* that click; a click whose confirmation was declined sends nothing; and
\* the reloads after a reset are sent only when the answer to a reset
\* request comes in.
C27_ResetOnlyAfterConfirm ==
    [][/\ \A q \in NewRequests :
             q.kind = "reset" =>
                 /\ dash'.clicks = dash.clicks + 1
                 /\ dash'.lastClick.target = "reset"
                 /\ dash'.lastClick.answer = Some(TRUE)
                 /\ q.click = dash'.clicks
                 /\ NewRequests = {q}
       /\ DeclinedResetClick =>
             /\ dash'.inflight = dash.inflight
             /\ dash'.issued = dash.issued
       /\ \A q \in NewRequests :
             q.by = "reset" =>
                 \E r \in dash.inflight \ dash'.inflight :
                     r.kind = "reset" /\ r.click = q.click]_vars

\* the user clicked reset and accepted the confirmation: the reset request
\* went out for that click, was answered with success, and the reload of the
\* leaderboard that follows is in flight
C27_Witness ==
    /\ dash.clicks = 1
    /\ dash.lastClick.target = "reset" /\ dash.lastClick.answer = Some(TRUE)
    /\ \E q \in dash.inflight : q.kind = "stats" /\ q.by = "reset" /\ q.click = 1
    /\ \A q \in dash.inflight : q.kind # "reset"

\* C28 as stated: once the script has initialised, on either path, the
\* management listeners are in place and a click on Manage with the panel
\* hidden opens it.
C28_AsStated ==
    /\ dash.inited => dash.wired
    /\ (/\ dash.lastClick.target = "manage"
        /\ dash.lastClick.inited
        /\ dash.lastClick.wasHidden) => dash.lastClick.opened

\* what the script gives: the listeners are in place exactly when the script
\* ran after the document had loaded, and on that path the click opens the
\* panel
C28_WiredOnLoadedPathOnly ==
    /\ dash.wired = (dash.script = "run" /\ ~dash.onLoaded)
    /\ (/\ dash.lastClick.target = "manage"
        /\ dash.lastClick.inited
        /\ dash.lastClick.wasHidden
        /\ ~dash.onLoaded) => dash.lastClick.opened

\* the script ran while the document was loading, init ran on
\* DOMContentLoaded, and a click on Manage after that left the panel hidden
C28_ManageDeadOnLoadingPath ==
    /\ dash.onLoaded /\ dash.inited /\ ~dash.wired
    /\ dash.lastClick.target = "manage"
    /\ dash.lastClick.inited
    /\ ~dash.lastClick.opened
    /\ dash.panelHidden

----------------------------------------------------------------------------
(* Properties of the scope of the records (SpecScope) *)

\* C31: whatever user_id the request body names, every record the run has
\* written is filed under the authenticated caller and the event_name of the
\* request, and every record the table held for another caller is still
\* there as it was.
C31_WritesOnlyOwnScope ==
    \A u \in run[1].auth :
        /\ \A k \in 1..Len(run[1].snap) :
              run[1].snap[k].user_id # u => run[1].snap[k] \in Range(store)
        /\ \A j \in 1..Len(store) :
              \/ store[j] \in Range(run[1].snap)
              \/ /\ store[j].user_id = u
                 /\ store[j].event_name = run[1].event_name

\* caller u1 sent a body naming u2: the run rewrote u1's record of Ann,
\* added u1's record of Bob and left u2's record of Ann alone
C31_Witness ==
    /\ Summarised(1)
    /\ run[1].auth = Some("u1") /\ run[1].body_user_id = Some("u2")
    /\ run[1].event_name = "E1"
    /\ run[1].successful = 1
    /\ Len(store) = 3
    /\ ScopeRecord("u2", "E1") \in Range(store)
    /\ ScopeRecord("u1", "E1") \notin Range(store)
    /\ \E j \in 1..Len(store) : store[j].user_id = "u1" /\ store[j].name = "Bob"

----------------------------------------------------------------------------
(* Properties of a refused discovery request (Spec) *)

\* C34: when the discovery request is answered with a non-success HTTP
\* status, the run has ended with an error response (success false) and the
\* discovery request is the only call it made: no roster fetch, no
\* distribution fetch, no upsert.
C34_DiscoveryFailureEndsRun ==
    \A r \in Inv :
        \A j \in 1..Len(run[r].log) :
            (run[r].log[j].call = "discovery" /\ ~run[r].log[j].doc.ok) =>
                /\ Done(r)
                /\ run[r].response.status >= 400
                /\ ~run[r].response.body.success
                /\ "error" \in DOMAIN run[r].response.body
                /\ \A k \in 1..Len(run[r].log) : run[r].log[k].call = "discovery"
                /\ Len(run[r].log) = 1
                /\ run[r].outcomes = <<>>
                /\ store = <<>>

\* the matches request of an authenticated, well-formed request was refused
C34_Witness ==
    /\ Done(1)
    /\ run[1].auth # None
    /\ HasEventToken(run[1].event_url)
    /\ Len(run[1].log) = 1
    /\ run[1].log[1].call = "discovery"
    /\ ~run[1].log[1].doc.ok
    /\ run[1].response.status = 500
    /\ ~run[1].response.body.success

----------------------------------------------------------------------------
(* Properties of the player loop (SpecBuild) *)

\* the matches of the run whose roster page and distribution page were both
\* retrieved and parsed
BothRetrieved(rn) ==
    {pos \in 1..Len(rn.matchIds) :
        /\ \E j \in CallsAt(rn, "roster", pos) : PlayersThrown(rn.log[j].doc) = ""
        /\ \E j \in CallsAt(rn, "counts", pos) : CountsThrown(rn.log[j].doc) = ""}

\* the roster the page of the match at pos listed; empty without a players array
RosterServedAt(rn, pos) ==
    PlayersOf(rn.log[CHOOSE j \in CallsAt(rn, "roster", pos) : TRUE].doc)

\* the lengths of the three secondary arrays the distribution page held
SecondaryLengths(rn, pos) ==
    LET c == rn.log[CHOOSE j \in CallsAt(rn, "counts", pos) : TRUE].doc.props
    IN  <<Len(c.distribution), Len(c.first_nine), Len(c.checkout_stats)>>

\* C32: for a match whose two retrievals succeeded, the upserts attempted are
\* one per roster index, in roster order, whatever the lengths of the three
\* secondary arrays: all of the roster when the match is counted successful,
\* and up to the refused upsert when it is counted failed. A match whose
\* roster is empty or has no players array is counted successful and writes
\* nothing.
C32_OneUpsertPerRosterIndex ==
    \A r \in Inv : \A pos \in BothRetrieved(run[r]) :
        LET ps == RosterServedAt(run[r], pos)
            ups == UpsertNamesAt(run[r], pos)
        IN  /\ Len(ups) <= Len(ps)
            /\ \A i \in 1..Len(ups) : ups[i] = ps[i].name
            /\ pos <= Len(run[r].outcomes) =>
                  IF run[r].outcomes[pos].ok
                  THEN Len(ups) = Len(ps)
                  ELSE /\ run[r].outcomes[pos].stage = "upsert"
                       /\ run[r].outcomes[pos].at = Len(ups)
            /\ pos > Len(run[r].outcomes) => Len(ups) < Len(ps)
            /\ Len(ps) = 0 =>
                  /\ pos <= Len(run[r].outcomes)
                  /\ run[r].outcomes[pos].ok
                  /\ store = <<>>

\* a roster of one player with two entries in each secondary array: one upsert
C32_Witness ==
    /\ Summarised(1)
    /\ 1 \in BothRetrieved(run[1])
    /\ Len(RosterServedAt(run[1], 1)) = 1
    /\ SecondaryLengths(run[1], 1) = <<2, 2, 2>>
    /\ UpsertNamesAt(run[1], 1) = <<"Ann">>
    /\ run[1].successful = 1
    /\ Len(store) = 1

\* a roster page without a players array: the match succeeded, nothing written
C32_NoPlayersArray ==
    /\ Summarised(1)
    /\ 1 \in BothRetrieved(run[1])
    /\ ~run[1].log[CHOOSE j \in CallsAt(run[1], "roster", 1) : TRUE].doc.props.hasPlayers
    /\ UpsertNamesAt(run[1], 1) = <<>>
    /\ run[1].successful = 1 /\ run[1].failed = 0
    /\ store = <<>>

\* the second upsert of a roster of two was refused, with no secondary entries
C32_StoppedAtRefusedUpsert ==
    /\ Done(1)
    /\ 1 \in BothRetrieved(run[1])
    /\ SecondaryLengths(run[1], 1) = <<0, 0, 0>>
    /\ UpsertNamesAt(run[1], 1) = <<"Ann", "Bob">>
    /\ run[1].failed = 1
    /\ Len(store) = 1

----------------------------------------------------------------------------
(* Properties of two runs of one request (SpecPair) *)

\* the upserts the database refused to a run: <<match position, roster index>>
RefusedUpserts(rn) ==
    {<<k, rn.outcomes[k].at>> : k \in UpsertFailedAt(rn)}

\* both runs are over and the database refused the same upserts to both
BothDoneAlike ==
    /\ Done(1) /\ Done(2)
    /\ RefusedUpserts(run[1]) = RefusedUpserts(run[2])

\* a step in which a run upserts a record whose key the table already holds
RewritesKey ==
    \E r \in Inv :
        /\ run[r].pc = "upsert"
        /\ Len(run'[r].log) = Len(run[r].log) + 1
        /\ Len(store') = Len(store)
        /\ HasRow(store, KeyOf(CurrentRecord(run[r])))

----------------------------------------------------------------------------
(* Properties of the leaderboard of the dashboard (SpecRefresh) *)

\* the step sends a stats request from the interval
AutoRequest ==
    \E q \in dash'.inflight \ dash.inflight : q.kind = "stats" /\ q.by = "timer"

\* C35: over any sequence of startAutoRefresh and stopAutoRefresh calls at
\* most one interval is active, and it is the one refreshInterval holds;
\* after stopAutoRefresh (refreshInterval is null) none is active, so no
\* automatic stats request is sent until startAutoRefresh is called again.
C35_AtMostOneTimer ==
    [][/\ Cardinality(dash'.timers) <= 1
       /\ dash'.timers = dash'.refreshInterval
       /\ AutoRequest => dash.refreshInterval # None /\ dash.timers # {}]_vars

\* started by init, started again, stopped: no interval is left
C35_Witness ==
    /\ dash.inited
    /\ dash.timerCalls = 2
    /\ dash.refreshInterval = None
    /\ dash.timers = {}
    /\ dash.ticks = 1

\* started by init and twice more: one interval, the third
C35_RestartedTwice ==
    /\ dash.inited
    /\ dash.timerCalls = 2
    /\ dash.refreshInterval = Some(3)
    /\ dash.timers = {3}

\* the step takes the answer to stats request q off the wire
Settles(q) ==
    /\ q \in dash.inflight
    /\ q.kind = "stats"
    /\ dash'.inflight = dash.inflight \ {q}

\* C36: currentData changes only in a step that takes a stats answer reporting
\* success, and becomes the data of that answer; the answer of a stats request
\* that failed (no response, non-success HTTP status, success false) leaves it
\* as it was.
C36_OnlySuccessReplacesData ==
    [][/\ dash'.currentData # dash.currentData =>
             \E q \in dash.inflight :
                 /\ Settles(q)
                 /\ q.id \in dash'.gotData
                 /\ dash'.currentData = Some(q.id)
       /\ \A q \in dash.inflight :
             (Settles(q) /\ q.id \notin dash'.gotData) =>
                 /\ dash'.currentData = dash.currentData
                 /\ dash'.shown = "error"]_vars

\* the first request was answered with data, the last one failed: the data of
\* the first is still current, the page shows the error
C36_Witness ==
    /\ dash.currentData = Some(1)
    /\ dash.latestStats > 1
    /\ dash.gotData = {1}
    /\ dash.shown = "error"
    /\ \A q \in dash.inflight : q.kind # "stats"

\* every stats request has been answered
AllStatsArrived(d) == d.latestStats > 0 /\ \A q \in d.inflight : q.kind # "stats"

\* C37 as stated: once every stats answer has arrived, the data kept and shown
\* are those of the stats request sent last (when that request got data).
C37_AsStated ==
    (AllStatsArrived(dash) /\ dash.latestStats \in dash.gotData) =>
        /\ dash.currentData = Some(dash.latestStats)
        /\ dash.shown = "data"

\* the answer to an earlier request arrived after the answer to the last one
\* and replaced its data
C37_StaleAnswerKept ==
    /\ AllStatsArrived(dash)
    /\ dash.latestStats \in dash.gotData
    /\ dash.currentData # None
    /\ dash.currentData # Some(dash.latestStats)
    /\ TheValue(dash.currentData) < dash.latestStats

\* what holds: the data kept are those of the answer with data that arrived
\* last, so of one of the requests sent
C37_DataOfSomeRequest ==
    \A x \in dash.currentData : x \in 1..dash.latestStats

====
